---- MODULE Spec2Model ----
(***************************************************************************)
(* Audio dump writers of Dolphin: AudioFileWriter (WAV / AIFF-C, raw       *)
(* pass-through, rotating files on a rate change) and WaveFileWriter (WAV, *)
(* linear-interpolation resampling).  A writer is modelled with the byte   *)
(* contents of the stream it holds and of the files on disk.               *)
(*                                                                         *)
(* The host is little-endian (Common::FromBigEndian swaps).  Numbers are   *)
(* kept below 2^31; a u32 that the code lets wrap is written through       *)
(* U32LE, which yields the two's-complement bytes.                         *)
(***************************************************************************)
EXTENDS Integers, Sequences, FiniteSets, TLC

(***************************************************************************)
(* Bounds of the model.                                                    *)
(***************************************************************************)
\* BUFFER_SIZE is 32 * 1024 in the writers' headers; scaled down here.
BUFFER_SIZE == 1
\* Number of calls made on the writer in one behaviour.
MaxOps == 3

(***************************************************************************)
(* Program constants.                                                      *)
(***************************************************************************)
\* Mixer::FIXED_SAMPLE_RATE_DIVIDEND (Mixer.h): 54000000 * 2.
FIXED_SAMPLE_RATE_DIVIDEND == 108000000
\* 100 * 1000 * 1000, the "big value in case the file gets truncated".
BIG_VALUE == 100000000
\* AudioInterface::Get48KHzSampleRateDivisor / Get32KHzSampleRateDivisor (Wii).
Divisors == {2250, 3375}
\* The divisors headers are written for: those, others that divide the
\* dividend (1, 1125 and the dividend itself), ones that do not, and one larger
\* than the dividend.
HeaderDivisors == Divisors \cup {1, 1125, 108000000, 7, 2248, 200000000}

(***************************************************************************)
(* Fixed-width integers and byte order.                                    *)
(***************************************************************************)
ToU16(x) == x % 65536
ToS16(x) == LET u == x % 65536 IN IF u >= 32768 THEN u - 65536 ELSE u
\* Common::swap16 on a u16.
swap16(u) == (u % 256) * 256 + (u \div 256)
\* C integer division truncates toward zero.
CDiv(a, b) == IF a >= 0 THEN a \div b ELSE -((-a) \div b)

Reverse(s) == [i \in 1..Len(s) |-> s[Len(s) + 1 - i]]
\* The bytes of x as a u16 / u32 in memory on the little-endian host.
U16LE(x) == <<x % 256, (x \div 256) % 256>>
U32LE(x) == <<x % 256, (x \div 256) % 256, (x \div 65536) % 256, (x \div 16777216) % 256>>
\* Reads a little-endian / big-endian number of any width below 2^31.
RECURSIVE LEValue(_)
LEValue(b) == IF b = <<>> THEN 0 ELSE b[1] + 256 * LEValue(Tail(b))
BEValue(b) == LEValue(Reverse(b))

\* ASCII codes of the chunk tags.
Tag(s) ==
  CASE s = "RIFF" -> <<82, 73, 70, 70>>
    [] s = "WAVE" -> <<87, 65, 86, 69>>
    [] s = "fmt " -> <<102, 109, 116, 32>>
    [] s = "data" -> <<100, 97, 116, 97>>
    [] s = "FORM" -> <<70, 79, 82, 77>>
    [] s = "AIFC" -> <<65, 73, 70, 67>>
    [] s = "FVER" -> <<70, 86, 69, 82>>
    [] s = "COMM" -> <<67, 79, 77, 77>>
    [] s = "sowt" -> <<115, 111, 119, 116>>
    [] s = "SSND" -> <<83, 83, 78, 68>>

(***************************************************************************)
(* The 80-bit sample rate of the AIFF header.  A value is a pair           *)
(* [exponent, significand]; the significand is a sequence of 64 bits, most *)
(* significant first.                                                      *)
(***************************************************************************)
\* Binary digits of n >= 0, most significant first (<<>> for 0).
IntBits(n) ==
  LET len == IF n = 0 THEN 0 ELSE CHOOSE l \in 1..31 : 2^(l - 1) <= n /\ n < 2^l
  IN [i \in 1..len |-> (n \div 2^(len - i)) % 2]

\* v < 2^m as m binary digits.
FixedBits(v, m) == [i \in 1..m |-> (v \div 2^(m - i)) % 2]

RECURSIVE FracBits(_, _, _)
\* The next k binary digits of r / d (0 <= r < d), followed by the remainder
\* left: long division, three digits a step.
FracBits(r, d, k) ==
  IF k = 0 THEN <<r>>
  ELSE LET m == IF k < 3 THEN k ELSE 3
       IN FixedBits((r * 2^m) \div d, m) \o FracBits((r * 2^m) % d, d, k - m)

\* bits + 1; a carry out of the top yields a sequence one longer.
BitsInc(bits) ==
  LET zeros == {i \in 1..Len(bits) : bits[i] = 0}
  IN IF zeros = {} THEN <<1>> \o [i \in 1..Len(bits) |-> 0]
     ELSE LET j == CHOOSE i \in zeros : \A k \in zeros : k <= i
          IN [i \in 1..Len(bits) |-> IF i < j THEN bits[i] ELSE IF i = j THEN 1 ELSE 0]

RECURSIVE LeadingZeros(_, _)
\* For 0 < r < d: how many binary digits of r / d precede its first 1.
LeadingZeros(r, d) == IF 2 * r >= d THEN 0 ELSE 1 + LeadingZeros(2 * r, d)

\* inc is the kept digits plus one: a carry out of the top renormalises.
Carried(inc, p, e) ==
  IF Len(inc) > p THEN [e |-> e + 1, bits |-> SubSeq(inc, 1, p)]
  ELSE [e |-> e, bits |-> inc]

\* The first p of the digits, rounded to nearest-even on the digit after
\* them and on whether anything non-zero follows them (sticky).
RoundBits(digits, p, sticky, e) ==
  IF digits[p + 1] = 1 /\ (sticky \/ digits[p] = 1)
  THEN Carried(BitsInc(SubSeq(digits, 1, p)), p, e)
  ELSE [e |-> e, bits |-> SubSeq(digits, 1, p)]

\* ib: the digits of the integer part; fr: those after it, then the remainder.
RoundDigits(ib, fr, p, z) ==
  RoundBits(ib \o SubSeq(fr, 1, Len(fr) - 1), p, fr[Len(fr)] # 0, Len(ib) - 1 - z)

QuotientDigits(n, d, p, z, ib) ==
  RoundDigits(ib, FracBits((n % d) * 2^z, d, (p + 1) - Len(ib)), p, z)

\* n / d (n > 0) rounded to nearest-even with p significant bits:
\* [e |-> unbiased binary exponent, bits |-> the p bits].
RoundedQuotient(n, d, p) ==
  QuotientDigits(n, d, p, IF n >= d THEN 0 ELSE LeadingZeros(n, d), IntBits(n \div d))

Zeros(k) == [i \in 1..k |-> 0]

\* The double's 11-bit exponent field taken over as it is, without 0x3FFF - 0x3FF.
EncodeDouble_NoRebias(divisor) ==
  [exponent |-> 1023 + RoundedQuotient(FIXED_SAMPLE_RATE_DIVIDEND, divisor, 53).e,
   significand |-> <<1>> \o SubSeq(RoundedQuotient(FIXED_SAMPLE_RATE_DIVIDEND, divisor, 53).bits, 2, 53) \o Zeros(11)]

\* long double (x87 extended): explicit leading bit, 64-bit significand.
EncodeLongDouble(divisor) ==
  LET q == RoundedQuotient(FIXED_SAMPLE_RATE_DIVIDEND, divisor, 64)
  IN [exponent |-> 16383 + q.e, significand |-> q.bits]

\* double, then 11 -> 15 bit exponent, the 52 fraction bits shifted left by
\* 63 - 52 and bit 63 forced.
EncodeDouble(divisor) ==
  LET q == RoundedQuotient(FIXED_SAMPLE_RATE_DIVIDEND, divisor, 53)
      field == 1023 + q.e
      frac52 == SubSeq(q.bits, 2, 53)
  IN [exponent |-> ToU16(16383 + (field - 1023)),
      significand |-> <<1>> \o frac52 \o Zeros(11)]

\* while ((significand & (1ULL << 63)) == 0) { significand <<= 1; exponent--; }
\* run to its end: one shift for each zero above the leading 1.  A significand
\* of 0 never leaves the loop: Start handles that case apart.
Normalize(exponent, significand) ==
  IF significand = Zeros(64) THEN [exponent |-> exponent, significand |-> significand]
  ELSE LET ones == {i \in 1..64 : significand[i] = 1}
           k == CHOOSE i \in ones : \A j \in ones : i <= j
       IN [exponent |-> ToU16(exponent - (k - 1)),
           significand |-> SubSeq(significand, k, 64) \o Zeros(k - 1)]

\* The integer fallback with its exponent started at 0x3FFF + 64.
EncodeInteger_Bias64(divisor) ==
  Normalize(16383 + 64,
            Zeros(64 - Len(IntBits(FIXED_SAMPLE_RATE_DIVIDEND \div divisor)))
              \o IntBits(FIXED_SAMPLE_RATE_DIVIDEND \div divisor))

\* Integer fallback: significand = dividend / divisor, exponent = 0x3FFF + 63.
EncodeInteger(divisor) ==
  LET ib == IntBits(FIXED_SAMPLE_RATE_DIVIDEND \div divisor)
  IN Normalize(16383 + 63, Zeros(64 - Len(ib)) \o ib)

RECURSIVE BitsValueTo(_, _)
BitsValueTo(bits, n) == IF n = 0 THEN 0 ELSE 2 * BitsValueTo(bits, n - 1) + bits[n]
\* The number a sequence of fewer than 31 bits spells.
BitsValue(bits) == BitsValueTo(bits, Len(bits))

\* The 8 bytes of a 64-bit significand, most significant first.
SignificandBytes(bits) == [i \in 1..8 |-> BitsValue(SubSeq(bits, 8 * i - 7, 8 * i))]

(***************************************************************************)
(* State.  The fields of the writer carry the names they have in the       *)
(* source; one writer object exists, of the class given by kind.           *)
(***************************************************************************)
VARIABLES
  kind,                         \* "AudioFileWriter" or "WaveFileWriter"
  float_host,                   \* which sample-rate branch the build takes
  file,                         \* File::IOFile file
  basename,                     \* std::string basename ("" is empty)
  file_index,                   \* u32 file_index
  audio_size,                   \* u32 audio_size
  current_sample_rate_divisor,  \* u32 current_sample_rate_divisor
  use_aiff,                     \* bool use_aiff (AudioFileWriter)
  skip_silence,                 \* bool skip_silence
  conv_buffer,                  \* std::array<short, ...> conv_buffer (AudioFileWriter)
  out_buffer,                   \* std::array<short, ...> out_buffer (WaveFileWriter)
  frac,                         \* u32 frac (WaveFileWriter)
  disk,                         \* the files that exist: name -> bytes
  linked,                       \* the open stream's file still has its name
  halt,                         \* "none", or how the process stopped for good
  last,                         \* what the most recent call did (history)
  payload,                      \* bytes appended after the header since the last open (history)
  session,                      \* what was fed and done since the last Start (history)
  life,                         \* the object's lifetime: alive, streams opened / closed (history)
  dumper,                       \* the fields of the AudioDumper that owns the writer, if one does
  nogui,                        \* the threads and globals of MainNoGUI.cpp
  nops                          \* calls made so far

vars == <<kind, float_host, file, basename, file_index, audio_size,
          current_sample_rate_divisor, use_aiff, skip_silence, conv_buffer,
          out_buffer, frac, disk, linked, halt, last, payload, session, life,
          dumper, nogui, nops>>

\* The fields of the writer object proper.
writer == <<file, basename, file_index, audio_size, current_sample_rate_divisor,
            use_aiff, skip_silence, conv_buffer, out_buffer, frac>>

NoName == [stem |-> "", ext |-> ""]
ClosedFile == [open |-> FALSE, name |-> NoName, pos |-> 0, data |-> <<>>]

\* What a call has done so far: the state an operation works on.
Cur ==
  [file |-> file, basename |-> basename, file_index |-> file_index,
   audio_size |-> audio_size,
   current_sample_rate_divisor |-> current_sample_rate_divisor,
   use_aiff |-> use_aiff, skip_silence |-> skip_silence,
   conv_buffer |-> conv_buffer, out_buffer |-> out_buffer, frac |-> frac,
   disk |-> disk, linked |-> linked,
   payload |-> payload, halt |-> "none",
   ret |-> "none", alert |-> "none", events |-> <<>>, written |-> 0,
   deleted |-> {}, oob |-> FALSE, logged |-> {}, elided |-> FALSE, closed |-> <<>>,
   opened |-> 0, loop |-> [current_sample |-> 0, r_index |-> 0, ratio |-> 0, read_oob |-> FALSE],
   alive |-> life.alive, dumper |-> dumper]

(***************************************************************************)
(* File::IOFile and the file utilities (Common/IOFile.h, Common/FileUtil.h).*)
(***************************************************************************)
File_Exists(s, filename) == filename \in DOMAIN s.disk

\* Unlinks the name; a stream open on it keeps its bytes but is off the disk.
File_Delete(s, filename) ==
  [s EXCEPT !.disk = [n \in (DOMAIN s.disk) \ {filename} |-> s.disk[n]],
            !.deleted = @ \cup {filename},
            !.linked = @ /\ ~(s.file.open /\ s.file.name = filename)]

\* file.Open(filename, "wb"): creates or truncates; open_ok is the platform's answer.
IOFile_Open(s, filename, open_ok) ==
  IF ~open_ok THEN [s EXCEPT !.file = ClosedFile]
  ELSE [s EXCEPT !.file = [open |-> TRUE, name |-> filename, pos |-> 0, data |-> <<>>],
                 !.linked = TRUE,
                 !.opened = @ + 1,
                 !.disk = (filename :> <<>>) @@ s.disk]

\* data with bytes stored at offset pos (0-based), extended as needed.
Overwrite(data, pos, bytes) ==
  LET n == IF pos + Len(bytes) > Len(data) THEN pos + Len(bytes) ELSE Len(data)
  IN [i \in 1..n |->
        IF i > pos /\ i <= pos + Len(bytes) THEN bytes[i - pos]
        ELSE IF i <= Len(data) THEN data[i] ELSE 0]

\* file.WriteBytes / file.WriteArray: nothing is written to a closed stream.
IOFile_WriteBytes(s, bytes) ==
  IF ~s.file.open THEN s
  ELSE LET d == Overwrite(s.file.data, s.file.pos, bytes)
       IN [s EXCEPT !.file.data = d,
                    !.file.pos = @ + Len(bytes),
                    !.written = @ + Len(bytes),
                    !.disk = IF s.linked THEN (s.file.name :> d) @@ @ ELSE @]

\* file.Seek(offset, File::SeekOrigin::Begin)
IOFile_Seek(s, offset) == IF ~s.file.open THEN s ELSE [s EXCEPT !.file.pos = offset]

IOFile_Tell(s) == s.file.pos

\* closed records the bytes of each stream a call closes.
IOFile_Close(s) ==
  IF ~s.file.open THEN s
  ELSE [s EXCEPT !.file = ClosedFile,
                 !.linked = FALSE,
                 !.closed = Append(@, [name |-> s.file.name, data |-> s.file.data])]

(***************************************************************************)
(* AudioFileWriter (AudioFile.cpp).                                        *)
(***************************************************************************)
\* template <typename T> Write(T value): the bytes handed to the stream,
\* big-endian for AIFF, else as they lie in host memory.
WriteBytesOf(aiff, le_bytes) == IF aiff THEN Reverse(le_bytes) ELSE le_bytes

AudioFileWriter_Write(s, le_bytes) ==
  IOFile_WriteBytes(s, WriteBytesOf(s.use_aiff, le_bytes))

AudioFileWriter_Write4(s, tag) == IOFile_WriteBytes(s, Tag(tag))

\* The branch of Start that the build's floating point selects.
SampleRate80(host, divisor) ==
  CASE host = "long double" -> EncodeLongDouble(divisor)
    [] host = "double" -> EncodeDouble(divisor)
    [] host = "integer" -> EncodeInteger(divisor)

Hosts == {"long double", "double", "integer"}
\* The sample rates of the model's divisors, encoded once.
EncodedRate == [h \in Hosts, d \in HeaderDivisors |-> SampleRate80(h, d)]

\* The integer fallback's while loop never ends when the quotient is 0:
\* shifting 0 left never sets bit 63.
NormalizationSpins(host, divisor) ==
  host = "integer" /\ FIXED_SAMPLE_RATE_DIVIDEND \div divisor = 0

\* The AIFF header without the u16 that ends the COMM chunk.
AiffHeader_NoCompressionName(host, divisor) ==
  << <<"4", "FORM">>, <<"v", U32LE(BIG_VALUE)>>, <<"4", "AIFC">>,
     <<"4", "FVER">>, <<"v", U32LE(4)>>, <<"v", <<64, 81, 128, 162>> >>,
     <<"4", "COMM">>, <<"v", U32LE(24)>>,
     <<"v", U16LE(2)>>, <<"v", U32LE(BIG_VALUE \div 2)>>, <<"v", U16LE(16)>>,
     <<"v", U16LE(EncodedRate[host, divisor].exponent)>>,
     <<"v", Reverse(SignificandBytes(EncodedRate[host, divisor].significand))>>,
     <<"4", "sowt">>,
     <<"4", "SSND">>, <<"v", U32LE(BIG_VALUE)>>, <<"v", U32LE(0)>>,
     <<"v", U32LE(0)>> >>

\* The header as the calls Start makes: <<"4", tag>> is Write4(tag) and
\* <<"v", bytes>> is Write<T>(value), bytes being the value in host memory.
AiffHeader(host, divisor) ==
  LET rate == EncodedRate[host, divisor]
  IN << <<"4", "FORM">>, <<"v", U32LE(BIG_VALUE)>>, <<"4", "AIFC">>,
        <<"4", "FVER">>, <<"v", U32LE(4)>>, <<"v", <<64, 81, 128, 162>> >>,
        <<"4", "COMM">>, <<"v", U32LE(24)>>,
        <<"v", U16LE(2)>>, <<"v", U32LE(BIG_VALUE \div 2)>>, <<"v", U16LE(16)>>,
        <<"v", U16LE(rate.exponent)>>,
        <<"v", Reverse(SignificandBytes(rate.significand))>>,
        <<"4", "sowt">>, <<"v", U16LE(0)>>,
        <<"4", "SSND">>, <<"v", U32LE(BIG_VALUE)>>, <<"v", U32LE(0)>>,
        <<"v", U32LE(0)>> >>

\* The wav header with a byte rate of one channel only.
WavHeader_MonoByteRate(divisor) ==
  LET sample_rate == FIXED_SAMPLE_RATE_DIVIDEND \div divisor
  IN << <<"4", "RIFF">>, <<"v", U32LE(BIG_VALUE)>>, <<"4", "WAVE">>,
        <<"4", "fmt ">>, <<"v", U32LE(16)>>, <<"v", <<1, 0, 2, 0>> >>,
        <<"v", U32LE(sample_rate)>>, <<"v", U32LE(sample_rate * 2)>>,
        <<"v", <<4, 0, 16, 0>> >>, <<"4", "data">>,
        <<"v", U32LE(BIG_VALUE - 32)>> >>

WavHeader(divisor) ==
  LET sample_rate == FIXED_SAMPLE_RATE_DIVIDEND \div divisor
  IN << <<"4", "RIFF">>, <<"v", U32LE(BIG_VALUE)>>, <<"4", "WAVE">>,
        <<"4", "fmt ">>, <<"v", U32LE(16)>>, <<"v", <<1, 0, 2, 0>> >>,
        <<"v", U32LE(sample_rate)>>, <<"v", U32LE(sample_rate * 2 * 2)>>,
        <<"v", <<4, 0, 16, 0>> >>, <<"4", "data">>,
        <<"v", U32LE(BIG_VALUE - 32)>> >>

RECURSIVE HeaderBytes(_, _)
\* The bytes the calls of a header hand to the stream, in order.
HeaderBytes(aiff, calls) ==
  IF calls = <<>> THEN <<>>
  ELSE LET c == Head(calls)
       IN (IF c[1] = "4" THEN Tag(c[2]) ELSE WriteBytesOf(aiff, c[2]))
          \o HeaderBytes(aiff, Tail(calls))

\* The headers of the model's divisors, computed once.
AiffHeaderBytes ==
  [h \in Hosts, d \in HeaderDivisors |-> HeaderBytes(TRUE, AiffHeader(h, d))]
WavHeaderBytes == [d \in HeaderDivisors |-> HeaderBytes(FALSE, WavHeader(d))]

\* A header that stops short of its last field.
AudioFileWriter_WriteHeader_Short(s, host, divisor) ==
  IOFile_WriteBytes(s, SubSeq(IF s.use_aiff THEN AiffHeaderBytes[host, divisor]
                                ELSE WavHeaderBytes[divisor], 1, 40))

\* The consecutive Write / Write4 calls of the header: each appends at the
\* stream's position, so they amount to one write of their bytes.
AudioFileWriter_WriteHeader(s, host, divisor) ==
  IOFile_WriteBytes(s, IF s.use_aiff THEN AiffHeaderBytes[host, divisor]
                       ELSE WavHeaderBytes[divisor])

\* if (file.Tell() != expected) PanicAlertFmt("Wrong offset: {}", file.Tell());
CheckOffset(s, expected) ==
  IF IOFile_Tell(s) # expected THEN [s EXCEPT !.alert = "wrong offset"] ELSE s

\* Start from file.Open on: opens the stream, resets the fields, writes the
\* header.  open_ok is the platform's answer to Open.
AudioFileWriter_OpenSegment(s, host, filename, divisor, aiff, open_ok) ==
  LET s2 == IOFile_Open(s, filename, open_ok)
  IN IF ~s2.file.open
     THEN [s2 EXCEPT !.ret = "false", !.alert = "could not be opened"]
     ELSE
       LET s3 == [s2 EXCEPT
                    !.audio_size = 0,
                    !.payload = 0,
                    !.basename = IF @ = "" THEN filename.stem ELSE @,
                    !.current_sample_rate_divisor = divisor,
                    !.use_aiff = aiff]
       IN IF aiff /\ NormalizationSpins(host, divisor)
          THEN [IOFile_WriteBytes(s3, SubSeq(AiffHeaderBytes[host, divisor], 1, 40))
                  EXCEPT !.halt = "spin"]
          ELSE [CheckOffset(AudioFileWriter_WriteHeader(s3, host, divisor),
                            IF aiff THEN 72 ELSE 44)
                  EXCEPT !.ret = "true"]

\* Start without its check for a stream that is already open.
AudioFileWriter_StartUnchecked(s, host, filename, divisor, aiff, open_ok) ==
  AudioFileWriter_OpenSegment(s, host, filename, divisor, aiff, open_ok)

\* Start from if (file) on; s is the state once an existing file has been
\* deleted.
AudioFileWriter_StartChecked(s, host, filename, divisor, aiff, open_ok) ==
  IF s.file.open THEN [s EXCEPT !.ret = "false", !.alert = "already open"]
  ELSE AudioFileWriter_OpenSegment(s, host, filename, divisor, aiff, open_ok)

\* bool Start(filename, hle_sample_rate_divisor, aiff).  overwrite is
\* MAIN_DUMP_AUDIO_SILENT || AskYesNo(...).
AudioFileWriter_Start(s, host, filename, divisor, aiff, overwrite, open_ok) ==
  LET s0 == [s EXCEPT !.events = Append(@, <<"Start", filename>>)]
  IN IF File_Exists(s0, filename) /\ ~overwrite THEN [s0 EXCEPT !.ret = "false"]
     ELSE AudioFileWriter_StartChecked(
            IF File_Exists(s0, filename) THEN File_Delete(s0, filename) ELSE s0,
            host, filename, divisor, aiff, open_ok)

\* Size fields with the data size stored at the end of the wav header, and
\* the SSND size without its - 8.
SizeFields_Misplaced(aiff, size) ==
  IF aiff THEN << <<4, size + 72 - 8>>, <<34, size \div 4>>, <<60, size>> >>
  ELSE << <<4, size + 36>>, <<44, size>> >>

\* The Seek / Write<u32> pairs of Stop, in order: <<offset, value>>.
SizeFields(aiff, size) ==
  IF aiff THEN << <<4, size + 72 - 8>>, <<34, size \div 4>>, <<60, size - 8>> >>
  ELSE << <<4, size + 36>>, <<40, size>> >>

RECURSIVE PatchFields(_, _)
PatchFields(s, fields) ==
  IF fields = <<>> THEN s
  ELSE PatchFields(AudioFileWriter_Write(IOFile_Seek(s, Head(fields)[1]),
                                         U32LE(Head(fields)[2])),
                   Tail(fields))

\* void Stop(): patches the size fields, closes the stream.
AudioFileWriter_Stop(s) ==
  [IOFile_Close(PatchFields(s, SizeFields(s.use_aiff, s.audio_size)))
     EXCEPT !.events = Append(@, <<"Stop">>)]

\* The stream closed as it is, its sizes left as Start wrote them.
AudioFileWriter_Destroy_Unpatched(s) ==
  [IOFile_Close(s) EXCEPT !.events = Append(@, <<"Stop">>), !.alive = FALSE]

\* ~AudioFileWriter(): Stop(); the members are destroyed after it.
AudioFileWriter_Destroy(s) == [AudioFileWriter_Stop(s) EXCEPT !.alive = FALSE]

\* std::array<short, ...> conv_buffer: the capacity the guard
\* count > BUFFER_SIZE * 2 of AddStereoSamplesBE protects, in shorts.
ConvBufferLen == 2 * (BUFFER_SIZE * 2)

\* One byte for each short: a write of count * 2 bytes, not count * 4.
ShortsBytes_Halved(shorts) == [i \in 1..Len(shorts) |-> ToU16(shorts[i]) % 256]

\* The payload bytes of a sequence of shorts as they lie in host memory.
RECURSIVE ShortsBytes(_)
ShortsBytes(shorts) ==
  IF shorts = <<>> THEN <<>>
  ELSE U16LE(ToU16(Head(shorts))) \o ShortsBytes(Tail(shorts))

\* The conversion without the channel flip: element k from input element k.
ConvSample_NoFlip(sample_data, k, l_volume, r_volume) ==
  ToS16(CDiv(ToS16(swap16(ToU16(sample_data[k]))) *
               (IF k % 2 = 1 THEN l_volume ELSE r_volume), 256))

\* conv_buffer[2 * i] and conv_buffer[2 * i + 1] of the conversion loop, as
\* the element at 1-based index k: channels flipped from RL to LR, un-swapped,
\* then scaled by the channel's volume.
ConvSample(sample_data, k, l_volume, r_volume) ==
  LET i == (k - 1) \div 2
      left == (k - 1) % 2 = 0
      raw == IF left THEN sample_data[2 * i + 1 + 1] ELSE sample_data[2 * i + 1]
      swapped == ToS16(swap16(ToU16(raw)))
  IN ToS16(CDiv(swapped * (IF left THEN l_volume ELSE r_volume), 256))

\* The file name of the next segment.
SegmentName(s) ==
  [stem |-> s.basename \o ToString(s.file_index),
   ext |-> IF s.use_aiff THEN ".aiff" ELSE ".wav"]

\* A rotation that names the new segment before it increments file_index.
Rotate_StaleIndex(s, host, sample_rate_divisor, overwrite, open_ok) ==
  LET a == AudioFileWriter_Stop(s)
      c == AudioFileWriter_Start(a, host, SegmentName(a), sample_rate_divisor,
                                 a.use_aiff, overwrite, open_ok)
  IN [c EXCEPT !.file_index = @ + 1,
               !.events = Append(@, <<"file_index++">>),
               !.current_sample_rate_divisor = sample_rate_divisor]

\* The body of if (sample_rate_divisor != current_sample_rate_divisor).
Rotate(s, host, sample_rate_divisor, overwrite, open_ok) ==
  LET a == AudioFileWriter_Stop(s)
      b == [a EXCEPT !.file_index = @ + 1,
                     !.events = Append(@, <<"file_index++">>)]
      c == AudioFileWriter_Start(b, host, SegmentName(b), sample_rate_divisor,
                                 b.use_aiff, overwrite, open_ok)
  IN [c EXCEPT !.current_sample_rate_divisor = sample_rate_divisor]

\* A batch is written as it comes, silent or not.
AudioFileWriter_AddStereoSamplesBE_NoElision(s, host, sample_data, count, sample_rate_divisor, l_volume, r_volume, fault, overwrite, open_ok) ==
  [IOFile_WriteBytes(s, ShortsBytes(sample_data)) EXCEPT !.audio_size = @ + count * 4]

\* void AddStereoSamplesBE(sample_data, count, sample_rate_divisor, l_volume,
\* r_volume).  fault: whether a store past the end of conv_buffer kills the
\* process; overwrite and open_ok are the answers Start gets on a rotation.
AudioFileWriter_AddStereoSamplesBE(s, host, sample_data, count, sample_rate_divisor, l_volume, r_volume, fault, overwrite, open_ok) ==
  LET s0 == [s EXCEPT !.logged =
               (IF ~s.file.open THEN {"file not open"} ELSE {}) \cup
               (IF count > BUFFER_SIZE * 2 THEN {"buffer too small"} ELSE {})]
      all_zero == \A i \in 1..(count * 2) : sample_data[i] = 0
      conv == [k \in 1..(count * 2) |-> ConvSample(sample_data, k, l_volume, r_volume)]
      oob == count * 2 > ConvBufferLen
  IN IF s0.skip_silence /\ all_zero THEN [s0 EXCEPT !.elided = TRUE]
     ELSE IF oob /\ fault THEN [s0 EXCEPT !.oob = TRUE, !.halt = "fault"]
     ELSE
       LET s1 == [s0 EXCEPT
                    !.oob = oob,
                    !.conv_buffer = [k \in 1..ConvBufferLen |->
                                       IF k <= count * 2 THEN conv[k] ELSE @[k]]]
           s2 == IF sample_rate_divisor # s1.current_sample_rate_divisor
                 THEN Rotate(s1, host, sample_rate_divisor, overwrite, open_ok)
                 ELSE s1
           s3 == IOFile_WriteBytes(s2, ShortsBytes(conv))
       IN [s3 EXCEPT !.audio_size = @ + count * 4,
                     !.payload = @ + (s3.written - s2.written)]

(***************************************************************************)
(* WaveFileWriter (WaveFile.cpp).                                          *)
(***************************************************************************)
\* The rates an AudioDumper is given (int srate).
Srates == {32000, 48000}

\* WaveFileWriter::OUT_SAMPLE_RATE (WaveFile.h): the fixed target rate.
OUT_SAMPLE_RATE == 44100
\* std::array<short, ...> out_buffer, sized like conv_buffer.
OutBufferLen == 2 * (BUFFER_SIZE * 2)

\* void Write(u32 value): the value as it lies in host memory.
WaveFileWriter_Write(s, le_bytes) == IOFile_WriteBytes(s, le_bytes)

WaveFileWriter_Write4(s, tag) == IOFile_WriteBytes(s, Tag(tag))

\* The header Start writes: the same calls as the wav branch of AudioFileWriter.
WaveHeaderBytes == [d \in HeaderDivisors \cup Srates |-> HeaderBytes(FALSE, WavHeader(d))]

WaveFileWriter_WriteHeader(s, divisor) == IOFile_WriteBytes(s, WaveHeaderBytes[divisor])

\* bool Start(filename, HLESampleRateDivisor)
WaveFileWriter_Start(s, filename, divisor, overwrite, open_ok) ==
  LET s0 == [s EXCEPT !.events = Append(@, <<"Start", filename>>)]
  IN
  IF File_Exists(s0, filename) /\ ~overwrite THEN [s0 EXCEPT !.ret = "false"]
  ELSE
    LET s1 == IF File_Exists(s0, filename) THEN File_Delete(s0, filename) ELSE s0
    IN IF s1.file.open
       THEN [s1 EXCEPT !.ret = "false", !.alert = "already open"]
       ELSE
         LET s2 == IOFile_Open(s1, filename, open_ok)
         IN IF ~s2.file.open
            THEN [s2 EXCEPT !.ret = "false", !.alert = "could not be opened"]
            ELSE
              LET s3 == [s2 EXCEPT
                           !.audio_size = 0,
                           !.payload = 0,
                           !.basename = IF @ = "" THEN filename.stem ELSE @,
                           !.current_sample_rate_divisor = divisor,
                           !.frac = 0]
                  s4 == CheckOffset(WaveFileWriter_WriteHeader(s3, divisor), 44)
              IN [s4 EXCEPT !.ret = "true"]

\* A Stop that closes the stream without patching the sizes.
WaveFileWriter_Stop_Unpatched(s) ==
  [IOFile_Close(s) EXCEPT !.events = Append(@, <<"Stop">>)]

\* void Stop()
WaveFileWriter_Stop(s) ==
  LET a == WaveFileWriter_Write(IOFile_Seek(s, 4), U32LE(s.audio_size + 36))
      b == WaveFileWriter_Write(IOFile_Seek(a, 40), U32LE(s.audio_size))
  IN [IOFile_Close(b) EXCEPT !.events = Append(@, <<"Stop">>)]

\* m * 2^sh truncated to an integer: the (u32) conversion.
Truncated(m, sh) == IF sh >= 0 THEN m * 2^sh ELSE m \div 2^(-sh)

\* q1 is FIXED_SAMPLE_RATE_DIVIDEND / float(divisor); q3 is q1 / float(OUT_SAMPLE_RATE).
RatioOfQuotients(q1, q3) ==
  Truncated(BitsValue(q3.bits), (q1.e - 23) + 16 + (q3.e - 23))

RatioFrom(q1) ==
  RatioOfQuotients(q1, RoundedQuotient(BitsValue(q1.bits), OUT_SAMPLE_RATE, 24))

\* (u32)(65536.0f * (FIXED_SAMPLE_RATE_DIVIDEND / float(divisor)) / float(OUT_SAMPLE_RATE))
\* in IEEE single precision: each division rounds to 24 significant bits, the
\* multiplication by 65536 is exact, the conversion truncates.
Ratio(divisor) == RatioFrom(RoundedQuotient(FIXED_SAMPLE_RATE_DIVIDEND, divisor, 24))

\* Divisors of rates further from the target: 144000 Hz (a ratio above 3),
\* 96000 Hz (a ratio above 2) and 12000 Hz (a ratio below 1/2).
ResampleDivisors == {750, 1125, 9000}

RatioOf == [d \in Divisors \cup ResampleDivisors |-> Ratio(d)]

\* The sum stored as a short without std::clamp: it wraps.
Clamp_Wraps(x, lo, hi) == ToS16(x)

Clamp(x, lo, hi) == IF x < lo THEN lo ELSE IF x > hi THEN hi ELSE x

\* One channel of one output frame: interpolation between the current and the
\* next input sample, volume, accumulation into the slot, clamp.
Interpolate(cur_raw, next_raw, frac16, volume, slot) ==
  LET c == ToS16(swap16(ToU16(cur_raw)))
      n == ToS16(swap16(ToU16(next_raw)))
      sample == ((c * 65536) + (n - c) * frac16) \div 65536
      scaled == (sample * volume) \div 256
  IN Clamp(scaled + slot, -32768, 32767)

\* sample_data[i]: a read past the end of the input yields what lies there.
InputAt(sample_data, i, garbage) ==
  IF i < Len(sample_data) THEN sample_data[i + 1] ELSE garbage

\* The phase masked before its overflow is taken: r_index never advances.
Advance_MaskFirst(r_index, phase, ratio) ==
  [r_index |-> r_index + 2 * ((((phase + ratio) % 65536) \div 65536) % 65536),
   frac |-> (phase + ratio) % 65536]

\* frac += ratio; r_index += 2 * static_cast<u16>(frac >> 16); frac &= 0xffff;
\* (frac + ratio stays below 2^31 for the ratios of the model).
Advance(r_index, phase, ratio) ==
  [r_index |-> r_index + 2 * (((phase + ratio) \div 65536) % 65536),
   frac |-> (phase + ratio) % 65536]

\* current_sample < count * 2 && (count * 2 - r_index) > 2, the difference
\* being unsigned: below zero it wraps to a number near 2^32.
LoopContinues(st, count) ==
  /\ st.current_sample < count * 2
  /\ \/ count * 2 - st.r_index > 2
     \/ count * 2 - st.r_index < 0

\* The body of the for loop and its increment; next is the position after it.
Iteration(st, sample_data, l_volume, r_volume, garbage, next) ==
  [current_sample |-> st.current_sample + 2,
   r_index |-> next.r_index,
   frac |-> next.frac,
   out |-> [st.out EXCEPT
              ![st.current_sample + 1 + 1] =
                 Interpolate(InputAt(sample_data, st.r_index + 1, garbage),
                             InputAt(sample_data, st.r_index + 2 + 1, garbage),
                             st.frac % 65536, l_volume, st.out[st.current_sample + 1 + 1]),
              ![st.current_sample + 1] =
                 Interpolate(InputAt(sample_data, st.r_index, garbage),
                             InputAt(sample_data, st.r_index + 2, garbage),
                             st.frac % 65536, r_volume, st.out[st.current_sample + 1])],
   read_oob |-> st.read_oob \/ st.r_index + 2 + 1 >= Len(sample_data)]

RECURSIVE ResampleLoop(_, _, _, _, _, _, _)
\* The for loop of AddStereoSamplesBE.  st: [current_sample, r_index, frac,
\* out, read_oob], out being the memory at out_buffer.data() and read_oob
\* whether sample_data was read past its end.
ResampleLoop(st, sample_data, count, ratio, l_volume, r_volume, garbage) ==
  IF ~LoopContinues(st, count) THEN st
  ELSE ResampleLoop(Iteration(st, sample_data, l_volume, r_volume, garbage,
                              Advance(st.r_index, st.frac, ratio)),
                    sample_data, count, ratio, l_volume, r_volume, garbage)

\* What follows the for loop, with frac set back to 0 for the next batch.
WaveFileWriter_Emit_ResetsFrac(s, done) ==
  [IOFile_WriteBytes(s, ShortsBytes(SubSeq(done.out, 1, done.current_sample)))
     EXCEPT !.frac = 0,
            !.audio_size = @ + done.current_sample * 2,
            !.loop.current_sample = done.current_sample,
            !.loop.r_index = done.r_index]

\* What follows the for loop: done is the loop's final state.
WaveFileWriter_Emit(s, done) ==
  LET s1 == [s EXCEPT !.frac = done.frac,
                      !.out_buffer = SubSeq(done.out, 1, OutBufferLen),
                      !.loop.current_sample = done.current_sample,
                      !.loop.r_index = done.r_index]
      s2 == IOFile_WriteBytes(s1, ShortsBytes(SubSeq(done.out, 1, done.current_sample)))
  IN [s2 EXCEPT !.audio_size = @ + done.current_sample * 2,
                !.payload = @ + (s2.written - s.written)]

\* An access past the end of out_buffer or of sample_data (oob) either kills
\* the process or lands in the memory that follows.
WaveFileWriter_Resampled(s, done, oob, fault) ==
  IF oob /\ fault THEN [s EXCEPT !.oob = TRUE, !.halt = "fault"]
  ELSE WaveFileWriter_Emit([s EXCEPT !.oob = oob], done)

\* The memory at out_buffer.data(), as far as the loop can reach; garbage is
\* what lies in it past the end of the array.
OutMemory(buffer, count, garbage) ==
  [k \in 1..(IF count * 2 > OutBufferLen THEN count * 2 ELSE OutBufferLen) |->
     IF k <= OutBufferLen THEN buffer[k] ELSE garbage]

WaveFileWriter_Resample(s, done, fault) ==
  WaveFileWriter_Resampled([s EXCEPT !.loop.read_oob = done.read_oob], done, done.current_sample > OutBufferLen \/ done.read_oob, fault)

\* AddStereoSamplesBE but for the computation of ratio (lines 142-145): the
\* guards, the silence check, the loop, the write.  fault: whether an access
\* past the end of a buffer kills the process; garbage: the value read there
\* otherwise.
WaveFileWriter_AddAtRatio(s, sample_data, count, ratio, l_volume, r_volume, fault, garbage) ==
  LET s0 == [s EXCEPT !.logged =
               (IF ~s.file.open THEN {"file not open"} ELSE {}) \cup
               (IF count > BUFFER_SIZE * 2 THEN {"buffer too small"} ELSE {})]
  IN IF s.skip_silence /\ \A i \in 1..(count * 2) : sample_data[i] = 0
     THEN [s0 EXCEPT !.elided = TRUE]
     ELSE WaveFileWriter_Resample(
            [s0 EXCEPT !.loop.ratio = ratio],
            ResampleLoop([current_sample |-> 0, r_index |-> 0, frac |-> s.frac,
                          out |-> OutMemory(s.out_buffer, count, garbage),
                          read_oob |-> FALSE],
                         sample_data, count, ratio, l_volume, r_volume, garbage),
            fault)

\* void AddStereoSamplesBE(sample_data, count, sample_rate_divisor, l_volume,
\* r_volume)
WaveFileWriter_AddStereoSamplesBE(s, sample_data, count, sample_rate_divisor, l_volume, r_volume, fault, garbage) ==
  WaveFileWriter_AddAtRatio(s, sample_data, count, RatioOf[sample_rate_divisor],
                            l_volume, r_volume, fault, garbage)

\* ~WaveFileWriter(): Stop();
WaveFileWriter_Destroy(s) == [WaveFileWriter_Stop(s) EXCEPT !.alive = FALSE]

(***************************************************************************)
(* AudioDumper (Src/AudioDumper.cpp): owns a WaveFileWriter wfr, whose     *)
(* fields are the writer's.                                                *)
(***************************************************************************)
\* if (fileopen) { wfr.Stop(); fileopen = false; }
AudioDumper_StopIfOpen(s) ==
  IF s.dumper.fileopen THEN [WaveFileWriter_Stop(s) EXCEPT !.dumper.fileopen = FALSE]
  ELSE s

\* The name CheckEm builds: basename, fileindex, ".wav".
AudioDumper_FileName(s) ==
  [stem |-> s.dumper.basename \o ToString(s.dumper.fileindex), ext |-> ".wav"]

\* CheckEm without its fileindex++.
AudioDumper_Started_SameIndex(started, srate) ==
  IF started.ret # "true" THEN [started EXCEPT !.ret = "false"]
  ELSE [started EXCEPT !.dumper.fileopen = TRUE, !.dumper.currentrate = srate]

\* CheckEm once wfr.Start has returned in state started.
AudioDumper_Started(started, srate) ==
  IF started.ret # "true" THEN [started EXCEPT !.ret = "false"]
  ELSE [started EXCEPT !.dumper.fileopen = TRUE,
                       !.dumper.currentrate = srate,
                       !.dumper.fileindex = @ + 1]

\* bool CheckEm(int srate); ret is its result.  create_ok is the answer of
\* File::CreateFullPath; srate is handed to wfr.Start as it is.
AudioDumper_CheckEm(s, srate, create_ok, overwrite, open_ok) ==
  IF ~s.dumper.fileopen \/ srate # s.dumper.currentrate \/ s.audio_size > 2000000000
  THEN IF ~create_ok THEN [AudioDumper_StopIfOpen(s) EXCEPT !.ret = "false"]
       ELSE AudioDumper_Started(
              WaveFileWriter_Start(AudioDumper_StopIfOpen(s),
                                   AudioDumper_FileName(s), srate, overwrite, open_ok),
              srate)
  ELSE [s EXCEPT !.ret = "true"]

\* void DumpSamplesBE(buff, nsamp, srate), checked being the state CheckEm
\* left.  The call wfr.AddStereoSamplesBE(buff, nsamp) leaves the divisor and
\* the volumes to WaveFile.h: the divisor is an input, the volumes are 256.
AudioDumper_Dump(checked, buff, nsamp, divisor, fault, garbage) ==
  IF checked.ret # "true" THEN checked
  ELSE WaveFileWriter_AddStereoSamplesBE(checked, buff, nsamp, divisor, 256, 256,
                                         fault, garbage)

AudioDumper_DumpSamplesBE(s, buff, nsamp, srate, create_ok, overwrite, open_ok, divisor, fault, garbage) ==
  AudioDumper_Dump(AudioDumper_CheckEm(s, srate, create_ok, overwrite, open_ok),
                   buff, nsamp, divisor, fault, garbage)

\* ~AudioDumper(): its body, then the destructor of the member wfr.
AudioDumper_Destroy(s) == WaveFileWriter_Destroy(AudioDumper_StopIfOpen(s))

(***************************************************************************)
(* Inputs.                                                                 *)
(***************************************************************************)
UserFiles == {[stem |-> "d", ext |-> ".wav"]}
\* count frames, each delivered as (right, left), the shorts byte-swapped:
\* 0x0100 un-swaps to 1, 0x0080 to -32768, 0xFF7F (-129) to 32767, 0xFFFF to -1.
SampleData(pattern, count) ==
  [i \in 1..(count * 2) |->
     CASE pattern = "zero" -> 0
       [] pattern = "const" -> IF i % 2 = 1 THEN 256 ELSE 128
       [] pattern = "tail" -> IF i = count * 2 THEN 128 ELSE 0
       [] pattern = "peak" -> IF i % 2 = 1 THEN -129 ELSE -1]
\* The batches fed: an empty one, silent and non-silent ones that fit, one
\* that fills the buffer, and one frame more than the guard allows.
Batch(count, pattern, l_volume, r_volume) ==
  [count |-> count, pattern |-> pattern, l_volume |-> l_volume, r_volume |-> r_volume]
Batches ==
  { Batch(0, "zero", 256, 256),
    Batch(1, "zero", 256, 256),
    Batch(1, "const", 256, 256),
    Batch(BUFFER_SIZE * 2, "tail", 256, 256),
    Batch(BUFFER_SIZE * 2, "const", 128, 0),
    Batch(BUFFER_SIZE * 2 + 1, "const", 256, 256) }

(***************************************************************************)
(* The calls.                                                              *)
(***************************************************************************)
\* What a call was given: the batch's divisor, samples and volumes (Start: its
\* divisor).
NoInput == [divisor |-> 0, samples |-> <<>>, l_volume |-> 0, r_volume |-> 0]
StartInput(divisor) == [NoInput EXCEPT !.divisor = divisor]
BatchInput(divisor, sample_data, l_volume, r_volume) ==
  [divisor |-> divisor, samples |-> sample_data, l_volume |-> l_volume, r_volume |-> r_volume]
Silent(input) == \A i \in 1..Len(input.samples) : input.samples[i] = 0

NoSession ==
  [started |-> FALSE, elided |-> 0, kept |-> 0, fed_divisor |-> 0, changes |-> 0,
   kept_divisor |-> 0, kept_changes |-> 0, rotations |-> 0, failed |-> FALSE,
   segments |-> <<>>]

Differs(a, b) == IF a # b THEN 1 ELSE 0

\* The history of the session after a batch that was not elided.
SessionKept(ses, r, count, input) ==
  [ses EXCEPT !.kept = @ + count,
              !.kept_changes = @ + Differs(input.divisor, ses.kept_divisor),
              !.kept_divisor = input.divisor,
              !.rotations = @ + (IF <<"file_index++">> \in {r.events[i] : i \in 1..Len(r.events)} THEN 1 ELSE 0),
              !.failed = @ \/ r.ret = "false",
              !.segments = @ \o r.closed]

SessionFed(ses, input) ==
  [ses EXCEPT !.changes = @ + Differs(input.divisor, ses.fed_divisor),
              !.fed_divisor = input.divisor]

SessionAfter(ses, r, op, count, input) ==
  IF op = "Start"
  THEN (IF r.ret = "true"
        THEN [NoSession EXCEPT !.started = TRUE, !.fed_divisor = input.divisor,
                               !.kept_divisor = input.divisor]
        ELSE ses)
  ELSE IF op = "AddStereoSamplesBE" /\ r.halt = "none"
  THEN (IF r.elided THEN [SessionFed(ses, input) EXCEPT !.elided = @ + 1]
        ELSE SessionKept(SessionFed(ses, input), r, count, input))
  ELSE [ses EXCEPT !.segments = @ \o r.closed]

Install(r, op, count, input) ==
  /\ file' = r.file
  /\ basename' = r.basename
  /\ file_index' = r.file_index
  /\ audio_size' = r.audio_size
  /\ current_sample_rate_divisor' = r.current_sample_rate_divisor
  /\ use_aiff' = r.use_aiff
  /\ skip_silence' = r.skip_silence
  /\ conv_buffer' = r.conv_buffer
  /\ out_buffer' = r.out_buffer
  /\ frac' = r.frac
  /\ disk' = r.disk
  /\ payload' = r.payload
  /\ linked' = r.linked
  /\ halt' = r.halt
  /\ last' = [op |-> op, count |-> count, was_open |-> file.open, ret |-> r.ret,
              alert |-> r.alert, events |-> r.events, written |-> r.written,
              deleted |-> r.deleted, oob |-> r.oob, logged |-> r.logged,
              elided |-> r.elided, closed |-> r.closed, input |-> input,
              loop |-> r.loop]
  /\ session' = SessionAfter(session, r, op, count, input)
  /\ life' = [alive |-> r.alive, opened |-> life.opened + r.opened,
               segments |-> life.segments \o r.closed]
  /\ dumper' = r.dumper
  /\ nops' = nops + 1
  /\ UNCHANGED <<kind, float_host, nogui>>

\* MainNoGUI.cpp: the bounds and the initial state of its globals.
\* DO_CALLBACK invocations made in a run.
MaxJobs == 2
\* AddSamples calls made in a run.
MaxAdds == 2

\* The threads that may run a trampoline: the cpu thread and one more.
Posters == {"cpu", "aux"}

\* AudioProvider(): pending is what blip_buf will yield at the next
\* blip_end_frame for the samples added since the last one (left, right
\* interleaved); made is every sample m_samples was ever given (history).
NoProvider == [m_sample_rate |-> 32000, pending |-> <<>>, m_samples |-> <<>>, made |-> <<>>]

\* The globals and the threads' positions.  s_main_thread_job is 0 (nullptr)
\* or the number of the DO_CALLBACK invocation whose lambda it holds;
\* jobCompleted[p] and mine[p] belong to the invocation thread p is in.
\* cpu is the state of the cpu thread: "paused", "running" (stepping a frame),
\* "breaking" (the frame is done, the thread not yet at rest).  runs, finished,
\* returned and used are history.
NoGui ==
  [posters |-> {}, s_main_thread_job |-> 0, lock |-> "none",
   pc |-> [t \in {"host"} \cup Posters |-> IF t = "host" THEN "idle" ELSE "out"],
   site |-> "none",
   mine |-> [p \in Posters |-> 0], jobCompleted |-> [p \in Posters |-> FALSE],
   posted |-> 0, runs |-> [j \in 1..MaxJobs |-> 0], finished |-> {}, returned |-> {},
   frame_step |-> FALSE, cpu |-> "paused",
   dsp |-> NoProvider, dtk |-> NoProvider, s_samples |-> <<>>,
   used |-> 0, adds |-> 0, aborted |-> FALSE]

\* An AudioDumper that has not opened a file yet (its constructor).
NoDumper == [basename |-> "", fileopen |-> FALSE, currentrate |-> 0, fileindex |-> 0]

CanCall == nops < MaxOps /\ halt = "none" /\ life.alive

\* The environment's answers, drawn only where the call can ask for them.
\* The overwrite question is put only for a file that exists.
OverwriteAnswers(filename) == IF filename \in DOMAIN disk THEN BOOLEAN ELSE {TRUE}
\* Open is reached only when the file is closed and overwriting was not declined.
OpenAnswers(overwrite) == IF overwrite /\ ~file.open THEN BOOLEAN ELSE {FALSE}
\* A rotation's Start runs only when the batch's divisor differs.
RotationAnswers(divisor) ==
  IF divisor # current_sample_rate_divisor THEN BOOLEAN ELSE {TRUE}
\* A store past the end of the buffer either faults or lands in other memory.
FaultOutcomes(count) == IF count * 2 > ConvBufferLen THEN BOOLEAN ELSE {FALSE}
\* What memory past the end of out_buffer may hold.
Garbage == {0, 7}

Start ==
  /\ CanCall
  /\ kind = "AudioFileWriter"
  /\ \E filename \in UserFiles, divisor \in Divisors, aiff \in BOOLEAN :
     \E overwrite \in OverwriteAnswers(filename) :
     \E open_ok \in OpenAnswers(overwrite) :
       Install(AudioFileWriter_Start(Cur, float_host, filename, divisor, aiff,
                                     overwrite, open_ok),
               "Start", 0, StartInput(divisor))

Stop ==
  /\ CanCall
  /\ kind = "AudioFileWriter"
  /\ Install(AudioFileWriter_Stop(Cur), "Stop", 0, NoInput)

AddStereoSamplesBE ==
  /\ CanCall
  /\ kind = "AudioFileWriter"
  /\ \E b \in Batches, divisor \in Divisors :
     \E fault \in FaultOutcomes(b.count) :
     \E overwrite \in RotationAnswers(divisor) :
     \E open_ok \in (IF overwrite THEN RotationAnswers(divisor) ELSE {FALSE}) :
       Install(AudioFileWriter_AddStereoSamplesBE(
                 Cur, float_host, SampleData(b.pattern, b.count), b.count, divisor,
                 b.l_volume, b.r_volume, fault, overwrite, open_ok),
               "AddStereoSamplesBE", b.count,
               BatchInput(divisor, SampleData(b.pattern, b.count), b.l_volume, b.r_volume))

WaveStart ==
  /\ CanCall
  /\ kind = "WaveFileWriter"
  /\ \E filename \in UserFiles, divisor \in Divisors :
     \E overwrite \in OverwriteAnswers(filename) :
     \E open_ok \in OpenAnswers(overwrite) :
       Install(WaveFileWriter_Start(Cur, filename, divisor, overwrite, open_ok),
               "Start", 0, StartInput(divisor))

WaveStop ==
  /\ CanCall
  /\ kind = "WaveFileWriter"
  /\ Install(WaveFileWriter_Stop(Cur), "Stop", 0, NoInput)

WaveAddStereoSamplesBE ==
  /\ CanCall
  /\ kind = "WaveFileWriter"
  /\ \E b \in Batches, divisor \in Divisors :
     \E fault \in FaultOutcomes(b.count) :
     \E garbage \in (IF fault \/ b.count * 2 <= OutBufferLen THEN {0} ELSE Garbage) :
       Install(WaveFileWriter_AddStereoSamplesBE(
                 Cur, SampleData(b.pattern, b.count), b.count, divisor,
                 b.l_volume, b.r_volume, fault, garbage),
               "AddStereoSamplesBE", b.count,
               BatchInput(divisor, SampleData(b.pattern, b.count), b.l_volume, b.r_volume))

InitWriter ==
  /\ kind \in {"AudioFileWriter", "WaveFileWriter"}
  /\ float_host \in (IF kind = "AudioFileWriter" THEN Hosts ELSE {"long double"})
  /\ file = ClosedFile
  /\ basename = ""
  /\ file_index = 0
  /\ audio_size = 0
  /\ current_sample_rate_divisor \in {0, 2250}
  /\ use_aiff = FALSE
  /\ skip_silence \in BOOLEAN
  /\ conv_buffer = Zeros(ConvBufferLen)
  /\ out_buffer = Zeros(OutBufferLen)
  /\ frac = 0
  /\ disk = <<>>
  /\ linked = FALSE
  /\ halt = "none"
  /\ last = [op |-> "none", count |-> 0, was_open |-> FALSE, ret |-> "none",
             alert |-> "none", events |-> <<>>, written |-> 0, deleted |-> {},
             oob |-> FALSE, logged |-> {}, elided |-> FALSE, closed |-> <<>>,
             input |-> NoInput,
             loop |-> [current_sample |-> 0, r_index |-> 0, ratio |-> 0, read_oob |-> FALSE]]
  /\ payload = 0
  /\ session = NoSession
  /\ life = [alive |-> TRUE, opened |-> 0, segments |-> <<>>]
  /\ dumper = NoDumper
  /\ nops = 0

Init == InitWriter /\ nogui = NoGui

Next ==
  \/ Start
  \/ Stop
  \/ AddStereoSamplesBE
  \/ WaveStart
  \/ WaveStop
  \/ WaveAddStereoSamplesBE

Spec == Init /\ [][Next]_vars

(***************************************************************************)
(* Headers: Start over the wider set of divisors, Stop in between.         *)
(***************************************************************************)
HeaderStart ==
  /\ CanCall
  /\ kind = "AudioFileWriter"
  /\ \E filename \in UserFiles, divisor \in HeaderDivisors, aiff \in BOOLEAN :
     \E overwrite \in OverwriteAnswers(filename) :
     \E open_ok \in OpenAnswers(overwrite) :
       Install(AudioFileWriter_Start(Cur, float_host, filename, divisor, aiff,
                                     overwrite, open_ok),
               "Start", 0, StartInput(divisor))

HeaderWaveStart ==
  /\ CanCall
  /\ kind = "WaveFileWriter"
  /\ \E filename \in UserFiles, divisor \in HeaderDivisors :
     \E overwrite \in OverwriteAnswers(filename) :
     \E open_ok \in OpenAnswers(overwrite) :
       Install(WaveFileWriter_Start(Cur, filename, divisor, overwrite, open_ok),
               "Start", 0, StartInput(divisor))

NextHeader ==
  \/ HeaderStart
  \/ Stop
  \/ HeaderWaveStart
  \/ WaveStop

SpecHeader == Init /\ [][NextHeader]_vars

(***************************************************************************)
(* One dump session: Start, batches, Stop.                                 *)
(***************************************************************************)
MaxSessionOps == 4

SessionBatches ==
  { Batch(1, "zero", 256, 256),
    Batch(1, "const", 256, 256),
    Batch(BUFFER_SIZE * 2, "const", 128, 0),
    Batch(BUFFER_SIZE * 2, "peak", 255, 256),
    Batch(BUFFER_SIZE * 2, "peak", 0, 1) }

InSession == nops >= 1 /\ nops < MaxSessionOps /\ halt = "none" /\ last.op # "Stop"

SessionStart ==
  /\ nops = 0
  /\ kind = "AudioFileWriter"
  /\ \E filename \in UserFiles, divisor \in Divisors, aiff \in BOOLEAN :
     \E open_ok \in BOOLEAN :
       Install(AudioFileWriter_Start(Cur, float_host, filename, divisor, aiff,
                                     TRUE, open_ok),
               "Start", 0, StartInput(divisor))

SessionAdd ==
  /\ InSession
  /\ kind = "AudioFileWriter"
  /\ \E b \in SessionBatches, divisor \in Divisors :
     \E open_ok \in RotationAnswers(divisor) :
       Install(AudioFileWriter_AddStereoSamplesBE(
                 Cur, float_host, SampleData(b.pattern, b.count), b.count, divisor,
                 b.l_volume, b.r_volume, FALSE, TRUE, open_ok),
               "AddStereoSamplesBE", b.count,
               BatchInput(divisor, SampleData(b.pattern, b.count), b.l_volume, b.r_volume))

SessionStop ==
  /\ InSession
  /\ kind = "AudioFileWriter"
  /\ Install(AudioFileWriter_Stop(Cur), "Stop", 0, NoInput)

SessionWaveStart ==
  /\ nops = 0
  /\ kind = "WaveFileWriter"
  /\ \E filename \in UserFiles, divisor \in Divisors :
     \E open_ok \in BOOLEAN :
       Install(WaveFileWriter_Start(Cur, filename, divisor, TRUE, open_ok),
               "Start", 0, StartInput(divisor))

SessionWaveAdd ==
  /\ InSession
  /\ kind = "WaveFileWriter"
  /\ \E b \in SessionBatches, divisor \in Divisors :
       Install(WaveFileWriter_AddStereoSamplesBE(
                 Cur, SampleData(b.pattern, b.count), b.count, divisor,
                 b.l_volume, b.r_volume, FALSE, 0),
               "AddStereoSamplesBE", b.count,
               BatchInput(divisor, SampleData(b.pattern, b.count), b.l_volume, b.r_volume))

SessionWaveStop ==
  /\ InSession
  /\ kind = "WaveFileWriter"
  /\ Install(WaveFileWriter_Stop(Cur), "Stop", 0, NoInput)

InitSession ==
  /\ Init
  /\ float_host = "long double"
  /\ current_sample_rate_divisor = 0

NextSession ==
  \/ SessionStart
  \/ SessionAdd
  \/ SessionStop
  \/ SessionWaveStart
  \/ SessionWaveAdd
  \/ SessionWaveStop

SpecSession == InitSession /\ [][NextSession]_vars

(***************************************************************************)
(* Lifetime: the calls, the destructors, and a WaveFileWriter owned by an  *)
(* AudioDumper (reachable only through the dumper).                        *)
(***************************************************************************)
Destroy ==
  /\ CanCall
  /\ kind = "AudioFileWriter"
  /\ Install(AudioFileWriter_Destroy(Cur), "Destroy", 0, NoInput)

WaveDestroy ==
  /\ CanCall
  /\ kind = "WaveFileWriter"
  /\ Install(WaveFileWriter_Destroy(Cur), "Destroy", 0, NoInput)

DumperDumpSamplesBE ==
  /\ CanCall
  /\ kind = "AudioDumper"
  /\ \E b \in SessionBatches, srate \in Srates, divisor \in Divisors :
     \E create_ok \in BOOLEAN :
     \E overwrite \in (IF create_ok THEN BOOLEAN ELSE {FALSE}) :
     \E open_ok \in (IF overwrite THEN BOOLEAN ELSE {FALSE}) :
       Install(AudioDumper_DumpSamplesBE(
                 Cur, SampleData(b.pattern, b.count), b.count, srate,
                 create_ok, overwrite, open_ok, divisor, FALSE, 0),
               "DumpSamplesBE", b.count,
               BatchInput(srate, SampleData(b.pattern, b.count), 256, 256))

DumperDestroy ==
  /\ CanCall
  /\ kind = "AudioDumper"
  /\ Install(AudioDumper_Destroy(Cur), "Destroy", 0, NoInput)

InitLife ==
  /\ kind \in {"AudioFileWriter", "WaveFileWriter", "AudioDumper"}
  /\ float_host = "long double"
  /\ file = ClosedFile
  /\ basename = ""
  /\ file_index = 0
  /\ audio_size = 0
  /\ current_sample_rate_divisor = 0
  /\ use_aiff = FALSE
  /\ skip_silence \in BOOLEAN
  /\ conv_buffer = Zeros(ConvBufferLen)
  /\ out_buffer = Zeros(OutBufferLen)
  /\ frac = 0
  /\ disk = <<>>
  /\ linked = FALSE
  /\ halt = "none"
  /\ last = [op |-> "none", count |-> 0, was_open |-> FALSE, ret |-> "none",
             alert |-> "none", events |-> <<>>, written |-> 0, deleted |-> {},
             oob |-> FALSE, logged |-> {}, elided |-> FALSE, closed |-> <<>>,
             input |-> NoInput,
             loop |-> [current_sample |-> 0, r_index |-> 0, ratio |-> 0, read_oob |-> FALSE]]
  /\ payload = 0
  /\ session = NoSession
  /\ life = [alive |-> TRUE, opened |-> 0, segments |-> <<>>]
  /\ dumper = [NoDumper EXCEPT !.basename = "d"]
  /\ nogui = NoGui
  /\ nops = 0

NextLife ==
  \/ Start
  \/ AddStereoSamplesBE
  \/ Stop
  \/ Destroy
  \/ WaveStart
  \/ WaveAddStereoSamplesBE
  \/ WaveStop
  \/ WaveDestroy
  \/ DumperDumpSamplesBE
  \/ DumperDestroy

SpecLife == InitLife /\ [][NextLife]_vars

(***************************************************************************)
(* Resampling: a WaveFileWriter fed batches at rates further from the      *)
(* target, and at a ratio of exactly 1.                                    *)
(***************************************************************************)
MaxResampleOps == 3

ResampleBatches ==
  { Batch(1, "const", 256, 256),
    Batch(BUFFER_SIZE + 1, "const", 256, 256),
    Batch(BUFFER_SIZE * 2, "const", 256, 256),
    Batch(BUFFER_SIZE * 2, "peak", 256, 256),
    Batch(BUFFER_SIZE * 2, "tail", 128, 0) }

\* 65536 is the ratio of a source rate equal to the target rate.  No divisor
\* yields it (2448 gives 65562, 2449 gives 65535); it is fed to the loop as the
\* value of its local ratio.
UnityRatios == {65536}

CanResample == nops < MaxResampleOps /\ halt = "none" /\ kind = "WaveFileWriter"

ResampleStart ==
  /\ CanResample
  /\ \E filename \in UserFiles, divisor \in Divisors :
       Install(WaveFileWriter_Start(Cur, filename, divisor, TRUE, TRUE),
               "Start", 0, StartInput(divisor))

ResampleAdd ==
  /\ CanResample
  /\ \E b \in ResampleBatches, divisor \in Divisors \cup ResampleDivisors :
     \E fault \in BOOLEAN :
     \E garbage \in (IF fault THEN {0} ELSE Garbage) :
       Install(WaveFileWriter_AddStereoSamplesBE(
                 Cur, SampleData(b.pattern, b.count), b.count, divisor,
                 b.l_volume, b.r_volume, fault, garbage),
               "AddStereoSamplesBE", b.count,
               BatchInput(divisor, SampleData(b.pattern, b.count), b.l_volume, b.r_volume))

ResampleAddAtRatio ==
  /\ CanResample
  /\ \E b \in ResampleBatches, ratio \in UnityRatios :
       Install(WaveFileWriter_AddAtRatio(
                 Cur, SampleData(b.pattern, b.count), b.count, ratio,
                 b.l_volume, b.r_volume, FALSE, 0),
               "AddStereoSamplesBE", b.count,
               BatchInput(0, SampleData(b.pattern, b.count), b.l_volume, b.r_volume))

ResampleStop ==
  /\ CanResample
  /\ Install(WaveFileWriter_Stop(Cur), "Stop", 0, NoInput)

InitResample ==
  /\ Init
  /\ kind = "WaveFileWriter"
  /\ current_sample_rate_divisor = 0

NextResample ==
  \/ ResampleStart
  \/ ResampleAdd
  \/ ResampleAddAtRatio
  \/ ResampleStop

SpecResample == InitResample /\ [][NextResample]_vars

(***************************************************************************)
(* Properties.                                                             *)
(***************************************************************************)
\* Length of the header of a container variant.
HeaderLength(aiff) == IF aiff THEN 72 ELSE 44

\* C1: in every reachable state of an AudioFileWriter, audio_size is the
\* number of payload bytes actually appended after the header since the last
\* successful Start (none before the first), which for an open segment is its
\* length less the header; right after a successful Start it is 0.
C1_AudioSizeIsPayload ==
  (kind = "AudioFileWriter") =>
    /\ audio_size = payload
    /\ file.open => audio_size = Len(file.data) - HeaderLength(use_aiff)
    /\ (last.op = "Start" /\ last.ret = "true") => audio_size = 0

\* C2: AddStereoSamplesBE on a writer whose stream is not open writes
\* nothing and leaves audio_size and every other field of the writer
\* unchanged (both writers).
C2_ClosedAddChangesNothing ==
  [][(last'.op = "AddStereoSamplesBE" /\ ~file.open)
       => (UNCHANGED writer /\ UNCHANGED disk /\ last'.written = 0)]_vars

\* C3: a batch of more than BUFFER_SIZE * 2 frames is dropped: no access past
\* the end of the conversion buffer, no payload byte written, audio_size and
\* the buffers as they were (both writers).
C3_OversizeBatchDropped ==
  [][(last'.op = "AddStereoSamplesBE" /\ last'.count > BUFFER_SIZE * 2)
       => (/\ ~last'.oob
           /\ last'.written = 0
           /\ UNCHANGED <<audio_size, conv_buffer, out_buffer, frac, file>>)]_vars

\* C4: Start on a writer whose stream is already open returns false and
\* changes nothing of the writer: audio_size, current_sample_rate_divisor,
\* basename, the container variant, the open stream and its bytes.
C4_StartOnOpenWriter ==
  [][(last'.op = "Start" /\ file.open)
       => (last'.ret = "false" /\ UNCHANGED writer /\ last'.written = 0)]_vars

\* A Start refused on a writer that holds a segment with payload.
C4_Witness ==
  /\ last.op = "Start"
  /\ last.was_open
  /\ last.ret = "false"
  /\ last.alert = "already open"
  /\ file.open
  /\ audio_size > 0

\* The stream holds exactly a provisional header of its variant: the full
\* length, the container tag and the placeholder sizes.
ProvisionalHeader ==
  /\ file.open
  /\ file.pos = Len(file.data)
  /\ Len(file.data) = HeaderLength(use_aiff)
  /\ IF use_aiff
     THEN /\ SubSeq(file.data, 1, 4) = Tag("FORM")
          /\ BEValue(SubSeq(file.data, 5, 8)) = BIG_VALUE
          /\ SubSeq(file.data, 57, 60) = Tag("SSND")
          /\ BEValue(SubSeq(file.data, 61, 64)) = BIG_VALUE
          /\ SubSeq(file.data, 65, 72) = Zeros(8)
     ELSE /\ SubSeq(file.data, 1, 4) = Tag("RIFF")
          /\ LEValue(SubSeq(file.data, 5, 8)) = BIG_VALUE
          /\ SubSeq(file.data, 37, 40) = Tag("data")
          /\ LEValue(SubSeq(file.data, 41, 44)) = BIG_VALUE - 32

\* C5: Start returns true exactly when it has opened a new stream and written
\* the complete provisional header to it; when it returns false it has written
\* no byte and the writer holds no newly opened stream.
C5_StartResult ==
  [][(last'.op = "Start") =>
       /\ last'.ret \in {"true", "false"}
       /\ (last'.ret = "true") <=>
            (~file.open /\ ProvisionalHeader' /\ last'.written = Len(file'.data))
       /\ (last'.ret = "false") => (last'.written = 0 /\ file' = file)]_vars

\* A Start that fails on a closed writer because the file cannot be opened.
C5_Witness ==
  /\ last.op = "Start"
  /\ ~last.was_open
  /\ last.ret = "false"
  /\ last.alert = "could not be opened"
  /\ ~file.open

\* C6: right after a successful Start the stream position is 44 for WAV and
\* 72 for AIFF, whatever the divisor and the sample-rate encoding branch; the
\* "Wrong offset" alert is never raised.
C6_HeaderOffset ==
  /\ last.alert # "wrong offset"
  /\ (last.op = "Start" /\ last.ret = "true") =>
       (file.open /\ file.pos = HeaderLength(use_aiff) /\ Len(file.data) = file.pos)

\* An AIFF header written by the integer branch for a divisor that does not
\* divide the dividend.
C6_Witness ==
  /\ kind = "AudioFileWriter"
  /\ float_host = "integer"
  /\ last.op = "Start"
  /\ last.ret = "true"
  /\ use_aiff
  /\ current_sample_rate_divisor = 7
  /\ file.pos = 72

\* C7: in a WAV header the sample-rate field (offset 24, u32 little-endian) is
\* FIXED_SAMPLE_RATE_DIVIDEND / divisor, integer division, and the byte-rate
\* field (offset 28) is four times that.
C7_WavRates ==
  (last.op = "Start" /\ last.ret = "true" /\ ~use_aiff) =>
    /\ LEValue(SubSeq(file.data, 25, 28)) =
         FIXED_SAMPLE_RATE_DIVIDEND \div current_sample_rate_divisor
    /\ LEValue(SubSeq(file.data, 29, 32)) =
         4 * (FIXED_SAMPLE_RATE_DIVIDEND \div current_sample_rate_divisor)

\* A WAV header for a divisor that does not divide the dividend.
C7_Witness ==
  /\ last.op = "Start"
  /\ last.ret = "true"
  /\ ~use_aiff
  /\ current_sample_rate_divisor = 2248
  /\ LEValue(SubSeq(file.data, 25, 28)) = 48042

\* data with the size fields of its variant set from size, all else as it is.
WithSizes(data, aiff, size) ==
  [i \in 1..Len(data) |->
     IF aiff
     THEN CASE i \in 5..8 -> Reverse(U32LE(size + 64))[i - 4]
            [] i \in 35..38 -> Reverse(U32LE(size \div 4))[i - 34]
            [] i \in 61..64 -> Reverse(U32LE(size - 8))[i - 60]
            [] OTHER -> data[i]
     ELSE CASE i \in 5..8 -> U32LE(size + 36)[i - 4]
            [] i \in 41..44 -> U32LE(size)[i - 40]
            [] OTHER -> data[i]]

\* C8: Stop on an open writer overwrites the size fields and nothing else
\* (WAV: offset 4 := audio_size + 36, offset 40 := audio_size; AIFF: offset 4
\* := audio_size + 64, offset 34 := audio_size / 4, offset 60 := audio_size - 8
\* as a u32 in the variant's byte order), then closes the stream.
C8_StopPatchesSizes ==
  [][(last'.op = "Stop" /\ file.open) =>
       /\ ~file'.open
       /\ Len(last'.closed) = 1
       /\ last'.closed[1].name = file.name
       /\ last'.closed[1].data = WithSizes(file.data, use_aiff, audio_size)
       /\ linked => (file.name \in DOMAIN disk' /\ disk'[file.name] = last'.closed[1].data)
       /\ last'.written = (IF use_aiff THEN 12 ELSE 8)]_vars

\* Stop of an AIFF segment that holds payload.
C8_Witness ==
  /\ kind = "AudioFileWriter"
  /\ last.op = "Stop"
  /\ last.was_open
  /\ use_aiff
  /\ Len(last.closed) = 1
  /\ Len(last.closed[1].data) > 72
  /\ ~file.open

\* The size fields of a closed file, read back, against its length.
SizesMatch(data) ==
  IF SubSeq(data, 1, 4) = Tag("FORM")
  THEN /\ BEValue(SubSeq(data, 5, 8)) + 8 = Len(data)
       /\ BEValue(SubSeq(data, 35, 38)) = (Len(data) - 72) \div 4
       /\ SubSeq(data, 61, 64) = Reverse(U32LE((Len(data) - 72) - 8))
  ELSE /\ SubSeq(data, 1, 4) = Tag("RIFF")
       /\ LEValue(SubSeq(data, 5, 8)) + 8 = Len(data)
       /\ LEValue(SubSeq(data, 41, 44)) = Len(data) - 44

\* C9: the size fields of a file closed after Start and batches, read back,
\* match the bytes written to it: WAV total size + 8 is the file length and the
\* data size is the payload length; AIFF likewise with its header overhead.
C9_SizesMatchBytes ==
  \A i \in 1..Len(last.closed) : SizesMatch(last.closed[i].data)

\* Stop after a silent batch was elided and a non-silent one was written: the
\* data size is four bytes for each frame of the batch that was kept.
C9_Witness ==
  /\ kind = "AudioFileWriter"
  /\ last.op = "Stop"
  /\ skip_silence
  /\ session.elided >= 1
  /\ session.kept >= 1
  /\ file_index = 0
  /\ Len(last.closed) = 1
  /\ SubSeq(last.closed[1].data, 1, 4) = Tag("RIFF")
  /\ LEValue(SubSeq(last.closed[1].data, 41, 44)) = 4 * session.kept

\* A batch whose divisor differs from the open segment's is being added.
Rotating ==
  /\ kind = "AudioFileWriter"
  /\ last'.op = "AddStereoSamplesBE"
  /\ file.open
  /\ halt' = "none"
  /\ ~last'.elided
  /\ current_sample_rate_divisor' # current_sample_rate_divisor

NextSegment ==
  [stem |-> basename \o ToString(file_index + 1),
   ext |-> IF use_aiff THEN ".aiff" ELSE ".wav"]

\* Stop of the old segment, then the index, then Start of the next one; the
\* old segment is closed with its own sizes and without the batch.
RotationSteps ==
  /\ last'.events = << <<"Stop">>, <<"file_index++">>, <<"Start", NextSegment>> >>
  /\ file_index' = file_index + 1
  /\ use_aiff' = use_aiff
  /\ basename' = basename
  /\ Len(last'.closed) = 1
  /\ last'.closed[1].name = file.name
  /\ last'.closed[1].data = WithSizes(file.data, use_aiff, audio_size)

\* The new segment holds its header for the new divisor and then the batch,
\* and audio_size counts the batch alone.
BatchInNewSegment ==
  /\ file'.open
  /\ file'.name = NextSegment
  /\ SubSeq(file'.data, 1, HeaderLength(use_aiff)) =
       (IF use_aiff THEN AiffHeaderBytes[float_host, current_sample_rate_divisor']
        ELSE WavHeaderBytes[current_sample_rate_divisor'])
  /\ Len(file'.data) = HeaderLength(use_aiff) + 4 * last'.count
  /\ audio_size' = 4 * last'.count

\* If the next segment cannot be started, the batch is written to no file.
BatchInNoSegment ==
  /\ ~file'.open
  /\ last'.written = (IF use_aiff THEN 12 ELSE 8)
  /\ DOMAIN disk' \subseteq DOMAIN disk

RECURSIVE PayloadSum(_, _)
\* The payload bytes of closed segments, added up.
PayloadSum(segs, aiff) ==
  IF segs = <<>> THEN 0
  ELSE (Len(Head(segs).data) - HeaderLength(aiff)) + PayloadSum(Tail(segs), aiff)

\* A session of an AudioFileWriter that was started, in which every Start of
\* a rotation succeeded, has been stopped.
SessionStopped ==
  /\ kind = "AudioFileWriter"
  /\ session.started
  /\ ~session.failed
  /\ last.op = "Stop"

\* One rotation, two closed segments with sizes that match their bytes, and a
\* payload of four bytes for each frame that was not elided.
TwoSegments ==
  /\ session.rotations = 1
  /\ Len(session.segments) = 2
  /\ session.segments[1].name # session.segments[2].name
  /\ \A i \in 1..Len(session.segments) : SizesMatch(session.segments[i].data)
  /\ PayloadSum(session.segments, use_aiff) = 4 * session.kept

C12_SilentBatchChangesNothing ==
  [][(last'.op = "AddStereoSamplesBE" /\ skip_silence /\ Silent(last'.input)) =>
       /\ UNCHANGED <<writer, disk, linked, payload>>
       /\ last'.written = 0
       /\ last'.events = <<>>
       /\ last'.closed = <<>>
       /\ halt' = "none"]_vars

\* A silent frame with another divisor was fed to an open AudioFileWriter that
\* holds payload, and was elided.
C12_Witness ==
  /\ kind = "AudioFileWriter"
  /\ skip_silence
  /\ last.op = "AddStereoSamplesBE"
  /\ last.count = 1
  /\ Silent(last.input)
  /\ last.input.divisor # current_sample_rate_divisor
  /\ last.elided
  /\ file.open
  /\ audio_size > 0

\* A WaveFileWriter has run its resampling loop in the step.
Resampled ==
  /\ kind = "WaveFileWriter"
  /\ last'.op = "AddStereoSamplesBE"
  /\ ~last'.elided
  /\ halt' = "none"

\* C13: the phase accumulator frac of a WaveFileWriter is in [0, 65535]
\* between calls and 0 after a successful Start; a call that resamples starts
\* from the frac the previous call left (it ends at that value plus ratio for
\* each output frame, masked to 16 bits) and every other call leaves frac as
\* it is.
C13_FracCarried ==
  /\ []((kind = "WaveFileWriter") =>
          /\ frac \in 0..65535
          /\ (last.op = "Start" /\ last.ret = "true") => frac = 0)
  /\ [][(Resampled =>
            frac' = (frac + (last'.loop.current_sample \div 2) * last'.loop.ratio) % 65536)
         /\ ((kind = "WaveFileWriter" /\ ~Resampled /\ last'.ret # "true") =>
               frac' = frac)]_vars

\* A second batch has been resampled into the open segment, from a phase that
\* was not 0, and has left one that is not 0.
C13_Witness ==
  /\ kind = "WaveFileWriter"
  /\ last.op = "AddStereoSamplesBE"
  /\ last.loop.current_sample > 0
  /\ file.open
  /\ audio_size > last.loop.current_sample * 2
  /\ frac # 0
  /\ frac # (last.loop.current_sample \div 2) * last.loop.ratio % 65536

\* Every frame of the input is the same.
ConstantAmplitude(samples) == \A i \in 1..Len(samples) : samples[i] = samples[((i - 1) % 2) + 1]

\* The first n shorts of the input, each byte-unswapped.
Unswapped(samples, n) == [i \in 1..n |-> ToS16(swap16(ToU16(samples[i])))]

\* The bytes the step appended to the open stream.
Appended == SubSeq(file'.data, Len(file.data) + 1, Len(file'.data))

C18_InputConsumed ==
  [][(Resampled /\ file.open /\ last'.count >= 2) =>
       last'.loop.r_index >= 2 * last'.count - 2]_vars

\* C19: a resampling call that starts from phase frac and makes k iterations
\* ends with (r_index / 2) * 65536 + frac equal to the phase it started from
\* plus k * ratio.
C19_PositionExact ==
  [][Resampled =>
       (last'.loop.r_index \div 2) * 65536 + frac' =
         frac + (last'.loop.current_sample \div 2) * last'.loop.ratio]_vars

\* Two iterations from a phase left by an earlier batch, the second of which
\* carried the phase over into the read index.
C19_Witness ==
  /\ kind = "WaveFileWriter"
  /\ last.op = "AddStereoSamplesBE"
  /\ last.loop.current_sample = 4
  /\ last.loop.r_index = 2
  /\ last.loop.ratio < 65536
  /\ frac # (2 * last.loop.ratio) % 65536
  /\ halt = "none"

\* x held to the signed 16-bit range.
Saturated(x) == IF x < -32768 THEN -32768 ELSE IF x > 32767 THEN 32767 ELSE x

\* One stored sample against the un-swapped input sample it comes from, the
\* volume of its channel and what the slot held before: the scaling leaves the
\* sample as it is at volume 256 and makes it 0 at volume 0.
StoredAsScaled(stored, sample, volume, slot) ==
  /\ (volume = 256) => stored = Saturated(sample + slot)
  /\ (volume = 0) => stored = Saturated(slot)
  /\ stored \in -32768..32767

\* conv_buffer after a batch: the left sample of frame i at 2 * i, the right
\* one at 2 * i + 1, delivered the other way round; the slots are overwritten.
ConvStoredAsScaled ==
  \A k \in 1..(2 * last'.count) :
    StoredAsScaled(conv_buffer'[k],
                   ToS16(swap16(ToU16(last'.input.samples[IF k % 2 = 1 THEN k + 1 ELSE k - 1]))),
                   IF k % 2 = 1 THEN last'.input.l_volume ELSE last'.input.r_volume,
                   0)

\* out_buffer after a batch of identical frames (interpolating between equal
\* samples yields the sample): right at even, left at odd indices, each added
\* to what its slot held.
OutStoredAsScaled ==
  \A k \in 1..last'.loop.current_sample :
    StoredAsScaled(out_buffer'[k],
                   ToS16(swap16(ToU16(last'.input.samples[k]))),
                   IF k % 2 = 1 THEN last'.input.r_volume ELSE last'.input.l_volume,
                   out_buffer[k])

\* A batch that fits the buffer has been converted by the writer of the kind.
Converted(k) ==
  /\ kind = k
  /\ last'.op = "AddStereoSamplesBE"
  /\ ~last'.elided
  /\ halt' = "none"
  /\ last'.count <= BUFFER_SIZE * 2

RateField(data) == SubSeq(data, 41, 50)
RateBytes(rate) == Reverse(U16LE(rate.exponent)) \o SignificandBytes(rate.significand)

\* An AIFF header has just been written for the writer's divisor.
AiffStarted ==
  /\ kind = "AudioFileWriter"
  /\ last.op = "Start"
  /\ last.ret = "true"
  /\ use_aiff

\* C16: for every divisor that divides FIXED_SAMPLE_RATE_DIVIDEND exactly, the
\* three sample-rate encoding branches yield the same (exponent, significand)
\* pair: the field written by the branch of the build is the field each of
\* the three branches computes.
C16_BranchesAgree ==
  (AiffStarted /\ FIXED_SAMPLE_RATE_DIVIDEND % current_sample_rate_divisor = 0) =>
    \A h \in Hosts :
      RateField(file.data) = RateBytes(SampleRate80(h, current_sample_rate_divisor))

\* A header for 32000 Hz written by the double branch.
C16_Witness ==
  /\ AiffStarted
  /\ float_host = "double"
  /\ current_sample_rate_divisor = 3375
  /\ Len(file.data) = 72

\* The bits of a sequence of bytes, most significant first.
ByteBits(bytes) ==
  [i \in 1..(8 * Len(bytes)) |-> (bytes[((i - 1) \div 8) + 1] \div 2^(7 - ((i - 1) % 8))) % 2]

\* exponent and significand read back from a header spell the number q:
\* bit 63 set, the top exponent - 0x3FFF + 1 bits are q, the rest are 0.
NormalizedValue(exponent, bits, q) ==
  /\ bits[1] = 1
  /\ exponent - 16383 \in 0..26
  /\ BitsValue(SubSeq(bits, 1, exponent - 16383 + 1)) = q
  /\ SubSeq(bits, exponent - 16383 + 2, 64) = Zeros(63 - (exponent - 16383))

\* C20: the integer fallback writes a normalized 80-bit value: bit 63 of the
\* significand is set and significand * 2^(exponent - 0x3FFF - 63) is the
\* integer quotient FIXED_SAMPLE_RATE_DIVIDEND / divisor, for every divisor
\* whose quotient is not 0.
C20_IntegerNormalized ==
  (AiffStarted /\ float_host = "integer") =>
    NormalizedValue(BEValue(SubSeq(file.data, 41, 42)),
                    ByteBits(SubSeq(file.data, 43, 50)),
                    FIXED_SAMPLE_RATE_DIVIDEND \div current_sample_rate_divisor)

\* The integer branch has encoded a quotient of 1: 63 shifts.
C20_Witness ==
  /\ AiffStarted
  /\ float_host = "integer"
  /\ current_sample_rate_divisor = FIXED_SAMPLE_RATE_DIVIDEND
  /\ BEValue(SubSeq(file.data, 41, 42)) = 16383
  /\ file.data[43] = 128

\* C17: once a writer is destroyed no stream is open, every stream it opened
\* has been closed, and each was closed with size fields that match its bytes
\* (segments closed by a rotation included); the destructor of a writer that
\* holds a stream patches exactly the size fields; and a Stop or a destructor
\* that finds the stream closed - the destructor after an explicit Stop, the
\* second Stop of ~AudioDumper - writes nothing and changes no file.
C17_FinalizedOnDestruction ==
  /\ [](~life.alive =>
          /\ ~file.open
          /\ Len(life.segments) = life.opened
          /\ \A i \in 1..Len(life.segments) : SizesMatch(life.segments[i].data))
  /\ [][((last'.op \in {"Stop", "Destroy"} /\ ~file.open) =>
            (disk' = disk /\ last'.written = 0 /\ last'.closed = <<>>))
        /\
         ((last'.op = "Destroy" /\ file.open) =>
            (/\ Len(last'.closed) = 1
             /\ last'.closed[1].data = WithSizes(file.data, use_aiff, audio_size)
             /\ last'.written = (IF use_aiff THEN 12 ELSE 8)
             /\ (linked => disk'[file.name] = last'.closed[1].data)))]_vars

\* An AudioDumper that had opened two segments was destroyed while the second
\* was open: its destructor stopped the writer and the writer's destructor ran
\* Stop again.
C17_Witness ==
  /\ kind = "AudioDumper"
  /\ ~life.alive
  /\ last.op = "Destroy"
  /\ last.was_open
  /\ last.events = << <<"Stop">>, <<"Stop">> >>
  /\ life.opened = 2
  /\ Len(life.segments) = 2
(***************************************************************************)
(* DolphinNoGUI (MainNoGUI.cpp): the threads that post callbacks with      *)
(* DO_CALLBACK, the host thread that runs them with TRY_CALLBACK inside    *)
(* Dolphin_FrameStep, and the two AudioProviders Dolphin_FrameStep mixes.  *)
(***************************************************************************)
\* A step of MainNoGUI.cpp touches no writer.
NoGuiStep(after) ==
  /\ ~nogui.aborted
  /\ nogui' = after
  /\ UNCHANGED <<kind, float_host, file, basename, file_index, audio_size,
                 current_sample_rate_divisor, use_aiff, skip_silence, conv_buffer,
                 out_buffer, frac, disk, linked, halt, last, payload, session, life,
                 dumper, nops>>

\* DO_CALLBACK: std::atomic_bool jobCompleted(false); s_main_thread_job_lock.lock();
\* The cpu thread runs a trampoline only while it is not paused.
DoLock(p) ==
  /\ nogui.pc[p] = "out"
  /\ nogui.lock = "none"
  /\ nogui.posted < MaxJobs
  /\ (p = "cpu") => nogui.cpu # "paused"
  /\ NoGuiStep([nogui EXCEPT !.lock = p, !.pc[p] = "locked",
                             !.jobCompleted[p] = FALSE,
                             !.posted = @ + 1, !.mine[p] = nogui.posted + 1])

\* s_main_thread_job = [&] { ... }; s_main_thread_job_lock.unlock();
DoPost(p) ==
  /\ nogui.pc[p] = "locked"
  /\ NoGuiStep([nogui EXCEPT !.s_main_thread_job = nogui.mine[p],
                             !.lock = "none", !.pc[p] = "spin"])

\* while (!jobCompleted.load()) {};  left once the flag is set.
DoSpin(p) ==
  /\ nogui.pc[p] = "spin"
  /\ nogui.jobCompleted[p]
  /\ NoGuiStep([nogui EXCEPT !.pc[p] = "out", !.returned = @ \cup {nogui.mine[p]}])

\* Core::DoFrameStep(): asks the paused cpu thread for one frame.
HostDoFrameStep ==
  /\ nogui.pc["host"] = "idle"
  /\ NoGuiStep([nogui EXCEPT !.frame_step = TRUE, !.pc["host"] = "stepping"])

\* while (Core::IsFrameStepping()) TRY_CALLBACK();
HostWaitStepping ==
  /\ nogui.pc["host"] = "stepping"
  /\ NoGuiStep(IF nogui.frame_step
               THEN [nogui EXCEPT !.pc["host"] = "try", !.site = "stepping"]
               ELSE [nogui EXCEPT !.pc["host"] = "active"])

\* while (CPU::IsCPUActive()) TRY_CALLBACK();  then the TRY_CALLBACK after it.
HostWaitActive ==
  /\ nogui.pc["host"] = "active"
  /\ NoGuiStep([nogui EXCEPT !.pc["host"] = "try",
                             !.site = IF nogui.cpu # "paused" THEN "active" ELSE "final"])

\* TRY_CALLBACK: s_main_thread_job_lock.lock();
TryLock ==
  /\ nogui.pc["host"] = "try"
  /\ nogui.lock = "none"
  /\ NoGuiStep([nogui EXCEPT !.lock = "host", !.pc["host"] = "locked"])

\* if (s_main_thread_job) s_main_thread_job();  the lambda calls the callback.
TryCall ==
  /\ nogui.pc["host"] = "locked"
  /\ nogui.s_main_thread_job # 0
  /\ NoGuiStep([nogui EXCEPT !.pc["host"] = "called",
                             !.runs[nogui.s_main_thread_job] = @ + 1])

\* The callback's end is not reported: jobCompleted is left as it is.
TryStore_NoStore ==
  /\ nogui.pc["host"] = "called"
  /\ NoGuiStep([nogui EXCEPT !.pc["host"] = "stored",
                             !.finished = @ \cup {nogui.s_main_thread_job}])

\* The callback has returned: jobCompleted.store(true), on the flag of the
\* invocation that made the lambda.
TryStore ==
  /\ nogui.pc["host"] = "called"
  /\ NoGuiStep([nogui EXCEPT
                  !.pc["host"] = "stored",
                  !.finished = @ \cup {nogui.s_main_thread_job},
                  !.jobCompleted = [p \in Posters |->
                                      IF nogui.mine[p] = nogui.s_main_thread_job
                                      THEN TRUE ELSE @[p]]])

\* s_main_thread_job = nullptr; s_main_thread_job_lock.unlock();  then back
\* to the loop that called, or on to the mixing.
TryClear ==
  /\ \/ nogui.pc["host"] = "stored"
     \/ nogui.pc["host"] = "locked" /\ nogui.s_main_thread_job = 0
  /\ NoGuiStep([nogui EXCEPT
                  !.s_main_thread_job = 0, !.lock = "none",
                  !.pc["host"] = IF nogui.site = "final" THEN "mix" ELSE nogui.site])

\* void FlushSamples(): nothing when m_nsamps == 0, else what blip_buf
\* yields is appended to m_samples.
FlushSamples(prov) ==
  IF prov.pending = <<>> THEN prov
  ELSE [prov EXCEPT !.m_samples = @ \o prov.pending,
                    !.made = @ \o prov.pending,
                    !.pending = <<>>]

\* void AddSamples(samples, num_samples, sample_rate, l_volume, r_volume):
\* yield is what blip_buf will make of the deltas added.
AudioProvider_AddSamples(prov, yield, sample_rate) ==
  [(IF prov.m_sample_rate # sample_rate
    THEN [FlushSamples(prov) EXCEPT !.m_sample_rate = sample_rate]
    ELSE prov)
   EXCEPT !.pending = @ \o yield]

\* The mixing loop summing without the halving.
Mixed_Unhalved(dsp_samples, dtk_samples, sz) ==
  [i \in 1..sz |-> ToS16(dsp_samples[i] + dtk_samples[i])]

\* s_samples after the mixing loop: int sample = dsp_samples[i] / 2 +
\* dtk_samples[i] / 2, pushed back as a short.
Mixed(dsp_samples, dtk_samples, sz) ==
  [i \in 1..sz |-> ToS16(CDiv(dsp_samples[i], 2) + CDiv(dtk_samples[i], 2))]

\* memmove(&samples[0], &samples[sz], samp_rm * 2); samples.resize(samp_rm);
Remainder(samples, sz) == SubSeq(samples, sz + 1, Len(samples))

\* Dolphin_FrameStep from s_dsp_audio_provider->FlushSamples() on, dsp and dtk
\* being the providers once flushed.  samples[sz] with sz == samples.size()
\* (and samples[0] of an empty vector) is outside the vector: the library
\* either aborts there or forms the address.
FrameStep_Mix(g, dsp, dtk, sz, abort) ==
  IF abort /\ (sz >= Len(dsp.m_samples) \/ sz >= Len(dtk.m_samples))
  THEN [g EXCEPT !.dsp = dsp, !.dtk = dtk, !.aborted = TRUE,
                 !.s_samples = Mixed(dsp.m_samples, dtk.m_samples, sz)]
  ELSE [g EXCEPT !.dsp = [dsp EXCEPT !.m_samples = Remainder(@, sz)],
                 !.dtk = [dtk EXCEPT !.m_samples = Remainder(@, sz)],
                 !.s_samples = Mixed(dsp.m_samples, dtk.m_samples, sz),
                 !.used = @ + sz,
                 !.pc["host"] = "idle"]

SizeMin(a, b) == IF Len(a) < Len(b) THEN Len(a) ELSE Len(b)

HostMix ==
  /\ nogui.pc["host"] = "mix"
  /\ \E abort \in BOOLEAN :
       NoGuiStep(FrameStep_Mix(nogui, FlushSamples(nogui.dsp), FlushSamples(nogui.dtk),
                               SizeMin(FlushSamples(nogui.dsp).m_samples,
                                       FlushSamples(nogui.dtk).m_samples),
                               abort))

\* What blip_buf yields for a batch: frames of (left, right), the extremes and
\* odd values among them.
Yields == { <<32767, -32768>>, <<-32768, -32767, 3, -3>> }

\* The cpu thread takes up the frame step asked for.
CpuWake ==
  /\ nogui.cpu = "paused"
  /\ nogui.frame_step
  /\ NoGuiStep([nogui EXCEPT !.cpu = "running"])

\* g_dsp_add_samples_func / g_dtk_add_samples_func, called while a frame runs.
CpuAddSamples ==
  /\ nogui.cpu # "paused"
  /\ nogui.pc["cpu"] = "out"
  /\ nogui.adds < MaxAdds
  /\ \E yield \in Yields, sample_rate \in Srates :
       \/ NoGuiStep([nogui EXCEPT
                       !.adds = @ + 1,
                       !.dsp = AudioProvider_AddSamples(@, yield, sample_rate)])
       \/ NoGuiStep([nogui EXCEPT
                       !.adds = @ + 1,
                       !.dtk = AudioProvider_AddSamples(@, yield, sample_rate)])

\* The frame is done: the frame step variable is unset.
CpuNewField ==
  /\ nogui.cpu = "running"
  /\ nogui.pc["cpu"] = "out"
  /\ NoGuiStep([nogui EXCEPT !.frame_step = FALSE, !.cpu = "breaking"])

\* The cpu thread comes to rest.
CpuBreak ==
  /\ nogui.cpu = "breaking"
  /\ nogui.pc["cpu"] = "out"
  /\ NoGuiStep([nogui EXCEPT !.cpu = "paused"])

HostNext ==
  \/ HostDoFrameStep
  \/ HostWaitStepping
  \/ HostWaitActive
  \/ TryLock
  \/ TryCall
  \/ TryStore
  \/ TryClear
  \/ HostMix

CpuNext ==
  \/ CpuWake
  \/ CpuAddSamples
  \/ CpuNewField
  \/ CpuBreak

PostNext ==
  \E p \in nogui.posters :
    \/ DoLock(p)
    \/ DoPost(p)
    \/ DoSpin(p)

InitNoGui(posters) ==
  /\ InitWriter
  /\ kind = "AudioFileWriter"
  /\ float_host = "long double"
  /\ current_sample_rate_divisor = 0
  /\ ~skip_silence
  /\ nogui = [NoGui EXCEPT !.posters = posters]

NextNoGui == HostNext \/ CpuNext \/ PostNext

\* Two threads post.
SpecJobs == InitNoGui(Posters) /\ [][NextNoGui]_vars

\* The cpu thread posts; every thread that can take a step gets to take one.
SpecFrameStep ==
  /\ InitNoGui({"cpu"})
  /\ [][NextNoGui]_vars
  /\ WF_vars(HostNext)
  /\ WF_vars(CpuNext)
  /\ WF_vars(PostNext)

\* The four payload bytes of input frame i (0-based): the left sample, which
\* is delivered second, then the right one, each un-swapped, scaled by its
\* channel's volume and laid down low byte first.
FrameBytes(samples, i, l_volume, r_volume) ==
  U16LE(ToU16(CDiv(ToS16(swap16(ToU16(samples[2 * i + 2]))) * l_volume, 256))) \o
  U16LE(ToU16(CDiv(ToS16(swap16(ToU16(samples[2 * i + 1]))) * r_volume, 256)))

\* C21: a batch an AudioFileWriter keeps and writes to its open stream ends
\* the stream with one (left, right) frame for each input frame, in input
\* order, each value the byte swap of its input word scaled by the volume of
\* its channel, low byte first in a WAV and in an AIFF segment alike.
C21_FramesReordered ==
  [][(Converted("AudioFileWriter") /\ file'.open) =>
       (/\ Len(file'.data) >= 4 * last'.count
        /\ \A i \in 0..(last'.count - 1) :
             SubSeq(file'.data,
                    Len(file'.data) - 4 * last'.count + 4 * i + 1,
                    Len(file'.data) - 4 * last'.count + 4 * i + 4)
               = FrameBytes(last'.input.samples, i,
                            last'.input.l_volume, last'.input.r_volume))]_vars

\* An AIFF segment has taken a batch that fills the buffer, its channels
\* different, one of them scaled by a volume below 256.
C21_Witness ==
  /\ kind = "AudioFileWriter"
  /\ use_aiff
  /\ file.open
  /\ last.op = "AddStereoSamplesBE"
  /\ ~last.elided
  /\ last.count = BUFFER_SIZE * 2
  /\ last.input.l_volume = 255
  /\ last.input.samples[1] # last.input.samples[2]
  /\ last.written = 4 * last.count

\* C22: a Start that returns false leaves every file as it was: no file is
\* deleted, created or changed, also when the writer already holds an open
\* stream and the path names an existing file.
C22_FailedStartKeepsFiles ==
  [][(last'.op = "Start" /\ last'.ret = "false") =>
       (disk' = disk /\ last'.deleted = {} /\ linked' = linked)]_vars

\* C23: whatever the count and the ratio, a batch given to an open
\* WaveFileWriter reads no element of the input at index 2 * count or above (so the
\* difference count * 2 - r_index of the loop condition, whose wrap is what
\* lets an iteration run past the end, has not wrapped) and produces at most
\* 2 * count output samples.
C23_NoAccessPastCount ==
  [][(kind = "WaveFileWriter" /\ file.open /\ last'.op = "AddStereoSamplesBE" /\
      ~last'.elided) =>
       (/\ ~last'.loop.read_oob
        /\ last'.loop.current_sample <= 2 * last'.count)]_vars

\* C24: the shift-normalization loop of the integer fallback ends for every
\* divisor of 1 or more, a divisor above FIXED_SAMPLE_RATE_DIVIDEND (integer
\* quotient 0) included: no Start is left spinning in it.
C24_NormalizationTerminates ==
  [][(last'.op = "Start" /\ last'.input.divisor >= 1) => halt' # "spin"]_vars

\* The last call handed its batch to the wave writer: the writer either
\* elided it or ran its loop on it.
BatchHanded == last.elided \/ last.loop.ratio # 0

\* C25: in an AudioDumper, while fileopen is true the writer holds a stream,
\* currentrate is the rate that segment was started with and the srate of the
\* last batch; fileindex is the number of segments opened so far and the
\* segments closed so far have names different from each other and from the
\* open one; and a DumpSamplesBE hands its batch to the writer only when
\* CheckEm returned true (the state then has fileopen set); after a refused
\* batch no stream is open.
C25_DumperInvariants ==
  (kind = "AudioDumper") =>
    /\ dumper.fileopen =>
         /\ file.open
         /\ dumper.currentrate = current_sample_rate_divisor
         /\ (last.op = "DumpSamplesBE") => last.input.divisor = dumper.currentrate
    /\ dumper.fileindex = life.opened
    /\ \A i, j \in 1..Len(life.segments) :
         (i # j) => life.segments[i].name # life.segments[j].name
    /\ \A i \in 1..Len(life.segments) :
         file.open => life.segments[i].name # file.name
    /\ (last.op = "DumpSamplesBE") =>
         /\ last.ret \in {"true", "false"}
         /\ BatchHanded => (last.ret = "true" /\ dumper.fileopen)
         /\ (last.ret = "false") => (~dumper.fileopen /\ ~file.open)

\* A dumper on its second segment, opened by a change of rate, with a batch
\* written to it.
C25_Witness ==
  /\ kind = "AudioDumper"
  /\ dumper.fileopen
  /\ dumper.fileindex = 2
  /\ Len(life.segments) = 1
  /\ last.op = "DumpSamplesBE"
  /\ last.closed # <<>>
  /\ BatchHanded
  /\ payload > 0

Flushed(prov) == prov.m_samples \o prov.pending

\* What s_samples must hold and what must stay in the buffers b and c.
MixedAsClaimed(g, b, c, sz) ==
  /\ Len(g.s_samples) = sz
  /\ \A i \in 1..sz :
       /\ g.s_samples[i] = CDiv(b[i], 2) + CDiv(c[i], 2)
       /\ g.s_samples[i] \in -32768..32767
  /\ g.dsp.m_samples = SubSeq(b, sz + 1, Len(b))
  /\ g.dtk.m_samples = SubSeq(c, sz + 1, Len(c))

\* C28: a Dolphin_FrameStep that gets through its mixing leaves in s_samples
\* min(|dsp|, |dtk|) samples, sample i being dsp[i] / 2 + dtk[i] / 2 (C
\* division) and within the signed 16-bit range, and in each provider's buffer
\* exactly the samples after those, in order; at all times a provider's buffer
\* is what it was ever given less the samples already mixed, so no sample is
\* mixed twice, skipped or reordered.
C28_MixKeepsOrder ==
  /\ [][(nogui.pc["host"] = "mix" /\ nogui'.pc["host"] = "idle") =>
          MixedAsClaimed(nogui', Flushed(nogui.dsp), Flushed(nogui.dtk),
                         SizeMin(Flushed(nogui.dsp), Flushed(nogui.dtk)))]_vars
  /\ [](/\ nogui.dsp.m_samples =
             SubSeq(nogui.dsp.made, nogui.used + 1, Len(nogui.dsp.made))
        /\ nogui.dtk.m_samples =
             SubSeq(nogui.dtk.made, nogui.used + 1, Len(nogui.dtk.made)))

\* A frame step has mixed two samples of each provider, extremes among them,
\* and left the two further samples of the dsp provider in its buffer.
C28_Witness ==
  /\ nogui.pc["host"] = "idle"
  /\ ~nogui.aborted
  /\ nogui.s_samples = <<-1, -32767>>
  /\ nogui.dsp.m_samples = <<3, -3>>
  /\ nogui.dtk.m_samples = <<>>
  /\ nogui.used = 2
====
